---------------------------- MODULE Spec2Model ----------------------------
(***************************************************************************)
(* Model of dataset-monitor.  The ingestion pipeline (src/src/fetcher.rs,  *)
(* src/src/db/mongodb.rs): one fetch cycle walks the configured centers,   *)
(* discovers new external ids, and fetches the details of the pending ids; *)
(* its credential cache under concurrent calls.  The monitoring run        *)
(* (src/src/monitor.rs): placeholders, probes, bulk update, summary; the   *)
(* probe classifier (src/src/models.rs); the calls on the analytical store *)
(* (src/src/db/duckdb.rs), statement by statement.                         *)
(***************************************************************************)
EXTENDS Integers, Sequences, FiniteSets, TLC

\* ------------------------------------------------------------------ bounds

\* longest list response (number of array entries) the provider returns
MaxList == 2

\* ------------------------------------------------ the universe of the model

\* external ids a provider's list endpoint can return
Ids == {"a", "b"}
\* an array entry without a string "id" field
NoId == "no_id"
\* values of the "@id" field of a details document ("" when the field is absent)
RawIds == {"", "r1"}
\* center names of the configuration
Names == {"", "B", "C"}
\* names of the services of a ticket response
ServiceNames == {"DATASET_LIST", "GET_DATASET_DETAILS"}
\* seconds subtracted from the server's ttl (fetcher.rs:240)
SafetyMargin == 300

NoToken == [token |-> "none", services |-> {}, expires_at |-> 0]
NoDoc == "no_doc"
NoBody == {"no_body"}

BoundedSeq(S, n) == UNION {[1..k -> S] : k \in 0..n}
Count(s, x) == Cardinality({i \in DOMAIN s : s[i] = x})
Range(s) == {s[i] : i \in DOMAIN s}

\* the configurations explored: each a sequence of centers
Configs ==
  { << [name |-> "", enabled |-> TRUE], [name |-> "B", enabled |-> TRUE],
       [name |-> "C", enabled |-> FALSE] >> }

\* what the ticket endpoint can answer
TicketResponses ==
  {[kind |-> "unreachable", token |-> "", expires |-> 0, services |-> {}],
   [kind |-> "unparsable", token |-> "", expires |-> 0, services |-> {}]} \cup
  [kind : {"ok"}, token : {"t1"}, expires : {3600},
   services : {ServiceNames, {"DATASET_LIST"}, {"GET_DATASET_DETAILS"}}] \cup
  [kind : {"ok"}, token : {"t1"}, expires : {300}, services : {ServiceNames}]
\* a ticket endpoint that works and serves both services with a long ttl
GoodTickets ==
  {[kind |-> "ok", token |-> "t1", expires |-> 3600, services |-> ServiceNames]}

\* what the list request can end in, besides a 2xx response with a JSON array
ListFailures ==
  {"transport_err", "unauthorized", "redirect", "http_err", "not_json", "not_array"}
\* the arrays a list endpoint can return (entries: an id, or an entry without id)
ListBodies == BoundedSeq(Ids \cup {NoId}, MaxList)

\* what the handling of one pending id can end in
DetailKinds ==
  {"ok", "http_fail", "transport_err", "parse_err", "upsert_err", "mark_err"}
DetailOutcomes ==
  [kind : DetailKinds \ {"ok"}, raw : {""}] \cup [kind : {"ok"}, raw : RawIds]
Unset == [kind |-> "unset", raw |-> ""]

VARIABLES
  centers,      \* Config.centers
  tokens,       \* DataFetcher.tokens
  now,          \* Utc::now(), seconds
  idStore,      \* collection processed_dataset_ids: per center and id, the number of pending and of processed documents
  datasets,     \* the dataset collections: per center and "@id", the casdc_id of the stored document
  prevIds,      \* per center, the ids of the list response of its last discovery, when that one succeeded
  detail,       \* per id, how the details request of the current run answers
  steady,       \* TRUE: the provider's answers never change and the infrastructure works
  pc,           \* position of the fetch cycle
  ci,           \* index of the center fetch_all_center is at
  queue,        \* pending ids process_pending_datasets still has to handle
  count,        \* process_pending_datasets's count
  lastOp,       \* the step taken last
  disc,         \* result of the last discover_new_ids
  proc,         \* result of the last process_pending_datasets
  runPending,   \* pending ids loaded at the start of the current run
  requested,    \* ids whose details were requested in the current run
  written,      \* (center, id) pairs whose upsert has succeeded
  attempted,    \* indexes of the centers whose discovery was attempted in the cycle
  failedC,      \* indexes of the centers whose fetch_center_data failed in the cycle
  cycleResult   \* what the last fetch_all_center returned

\* the monitoring run (src/src/monitor.rs) and the analytical store
VARIABLES
  maxConcurrent, \* config.monitor.max_concurrent
  retryTimes,    \* config.monitor.retry_times
  mongoDocs,     \* the dataset documents get_datasets returns, in load order
  mpc,           \* position of check_all_urls
  runNo,         \* number of monitoring runs started
  records,       \* check_all_urls's records
  admitted,      \* number of records buffer_unordered has taken from the stream
  inflight,      \* indexes of the records whose probe is in the pool
  results,       \* the results collected so far, in completion order
  answers,       \* per record id, what its probe request of this run ended in
  sent,          \* per record id, the probe requests sent for it in this run
  rows,          \* table dataset_monitor
  mlast,         \* the step of the monitoring run taken last
  monitorResult  \* what the last check_all_urls returned

\* one probe of one record, for every answer a request can end in
VARIABLES
  probe,         \* what the request ends in
  pstep,         \* how far the record has come: new, inserted, processed, stored
  checked,       \* what check_url returned for the request
  probed,        \* the record process_record returned
  stored,        \* table dataset_monitor holding the record's row
  category,      \* an ErrorCategory
  localIssue     \* is_likely_local_issue of category, once computed

\* the credential cache of one fetcher under concurrent get_or_refresh_token
\* calls (src/src/fetcher.rs:201-245)
VARIABLES
  tokenCache,    \* DataFetcher.tokens, per provider name
  clock,         \* Utc::now(), seconds
  callers,       \* per task, the get_or_refresh_token call it is in or made last
  stores,        \* per provider name, the number of tokens.insert calls so far
  lastStored,    \* per provider name, the TokenInfo of the last tokens.insert
  calls          \* number of get_or_refresh_token calls started

\* one DuckDB handle shared by a monitoring run and a reader
\* (src/src/db/duckdb.rs)
VARIABLES
  tableRows,     \* table dataset_monitor as the connection sees it
  tempUpdates,   \* temporary table temp_updates: whether it exists, and its rows
  committed,     \* what a rollback returns to: the table and the staging table as last committed
  lockHolder,    \* the task holding the guard of DuckDB.conn
  storeTasks,    \* per task, the DuckDB call it is in or made last
  runRecords,    \* the records the run passed to insert_records
  runResults,    \* the results the run passed to update_status
  runOutcome,    \* what check_all_urls returned
  readRows       \* the rows the reader's last query returned

\* the summary at the end of check_all_urls (src/src/monitor.rs:59-81)
VARIABLES
  resultCount,      \* results.len()
  localIssueCount,  \* local_issue_count
  summaryStep,      \* probed, then failed (update_status returned Err) or done
  warning           \* whether the local-network warning was emitted

fetchVars ==
  << centers, tokens, now, idStore, datasets, prevIds, detail, steady,
     pc, ci, queue, count, lastOp, disc, proc, runPending, requested, written,
     attempted, failedC, cycleResult >>

monitorVars ==
  << maxConcurrent, retryTimes, mongoDocs, mpc, runNo, records, admitted, inflight,
     results, answers, sent, rows, mlast, monitorResult >>

probeVars == << probe, pstep, checked, probed, stored, category, localIssue >>

tokenVars == << tokenCache, clock, callers, stores, lastStored, calls >>

storeVars ==
  << tableRows, tempUpdates, committed, lockHolder, storeTasks, runRecords,
     runResults, runOutcome, readRows >>

summaryVars == << resultCount, localIssueCount, summaryStep, warning >>

vars == << fetchVars, monitorVars, probeVars, tokenVars, storeVars, summaryVars >>

\* ------------------------------------------------------- the document store

EmptyEntry == [pending |-> 0, processed |-> 0]

\* save_new_dataset_ids: one pending document per element of new_ids
SaveNewDatasetIds(store, name, newIds) ==
  [store EXCEPT ![name] =
     [id \in Ids |->
        [pending |-> store[name][id].pending + Count(newIds, id),
         processed |-> store[name][id].processed]]]

\* update_processed_ids with delete_many in the place of update_many
UpdateProcessedIds_Delete(store, name, ids) ==
  [store EXCEPT ![name] =
     [id \in Ids |-> IF id \in ids THEN EmptyEntry ELSE store[name][id]]]

\* update_processed_ids: update_many sets every matching document to processed
UpdateProcessedIds(store, name, ids) ==
  [store EXCEPT ![name] =
     [id \in Ids |->
        IF id \in ids
          THEN [pending |-> 0,
                processed |-> store[name][id].pending + store[name][id].processed]
          ELSE store[name][id]]]

\* get_dataset_by_center: every id the store holds for the center, whatever its status
GetDatasetByCenter(store, name) ==
  {id \in Ids : store[name][id].pending + store[name][id].processed > 0}

\* get_unprocessed_ids: the ids of the pending documents of the center, one per
\* document, in the order the cursor yields them
GetUnprocessedIds(store, name) ==
  {s \in BoundedSeq(Ids, Cardinality(Ids) * MaxList) :
     \A id \in Ids : Count(s, id) = store[name][id].pending}

\* upsert_dataset: replace_one with filter {"@id": raw_id}, upsert
UpsertDataset(coll, name, dataset) ==
  [coll EXCEPT ![name][dataset.raw_id] = dataset.casdc_id]

\* ------------------------------------------------------------ the fetcher

\* fetch_all_center's guard: the centers it skips
Skipped(center) == ~center.enabled \/ center.name # ""

\* the ids of the array's entries that carry one
AllDatasetIds(body) == SelectSeq(body, LAMBDA v : v # NoId)

\* new_ids without the filter against the known ids
NewIds_NoFilter(all, existing) == all

\* new_ids with the filter skipping the last entry of the list
NewIds_LastUnfiltered(all, existing) ==
  IF all = << >> THEN << >>
  ELSE Append(SelectSeq(SubSeq(all, 1, Len(all) - 1), LAMBDA id : id \notin existing),
              all[Len(all)])

\* the ids of the list the store does not know
NewIds(all, existing) == SelectSeq(all, LAMBDA id : id \notin existing)

\* get_or_refresh_token: the cached entry when it has not expired, else one
\* ticket request whose answer is resp
GetOrRefreshToken(toks, name, resp, t) ==
  IF toks[name] # NoToken /\ toks[name].expires_at > t
    THEN [ok |-> TRUE, tokens |-> toks, info |-> toks[name], asked |-> FALSE]
  ELSE IF resp.kind # "ok"
    THEN [ok |-> FALSE, tokens |-> toks, info |-> NoToken, asked |-> TRUE]
  ELSE LET info == [token |-> resp.token, services |-> resp.services,
                    expires_at |-> t + (resp.expires - SafetyMargin)]
       IN [ok |-> TRUE, tokens |-> [toks EXCEPT ![name] = info],
           info |-> info, asked |-> TRUE]

\* the list request with one more attempt after a request that failed
ListRequests_RetryOnFailure(err) ==
  IF err \in {"auth", "no_service"} THEN 0
  ELSE IF err \in ListFailures THEN 2
  ELSE 1

\* the list requests one discover_new_ids call sends: one send(), reached when
\* the credential and the list service were found
ListRequests(err) == IF err \in {"auth", "no_service"} THEN 0 ELSE 1

\* discover_new_ids: resp answers the ticket request (when one is made), net is
\* how the list request ends, body the array it returns, readOk whether the read
\* of the known ids works, saved how many documents insert_many wrote
DiscoverNewIds(store, toks, name, resp, net, body, readOk, saved, t) ==
  LET tk == GetOrRefreshToken(toks, name, resp, t)
      all == AllDatasetIds(body)
      existing == GetDatasetByCenter(store, name)
      new == NewIds(all, existing)
      err == IF ~tk.ok THEN "auth"
             ELSE IF "DATASET_LIST" \notin tk.info.services THEN "no_service"
             ELSE IF net # "ok" THEN net
             ELSE IF ~readOk THEN "storage_read"
             ELSE IF new # << >> /\ saved < Len(new) THEN "storage_save"
             ELSE "none"
  IN [err |-> err,
      ret |-> IF err = "none" THEN Len(new) ELSE 0,
      tokens |-> tk.tokens,
      ticketRequests |-> IF tk.asked THEN 1 ELSE 0,
      listRequests |-> ListRequests(err),
      store |-> IF err = "none" /\ new # << >>
                  THEN SaveNewDatasetIds(store, name, new)
                ELSE IF err = "storage_save"
                  THEN SaveNewDatasetIds(store, name, SubSeq(new, 1, saved))
                ELSE store]

\* the loop with the non-success branch falling through to the status update
DetailStep_MarkOnHttpFail(kind) ==
  CASE kind = "transport_err" -> [next |-> "abort", wrote |-> FALSE]
    [] kind = "http_fail"     -> [next |-> "mark", wrote |-> FALSE]
    [] kind = "parse_err"     -> [next |-> "abort", wrote |-> FALSE]
    [] kind = "upsert_err"    -> [next |-> "abort", wrote |-> FALSE]
    [] OTHER                  -> [next |-> "mark", wrote |-> TRUE]

\* the loop with the upsert's error dropped instead of propagated
DetailStep_IgnoreUpsertError(kind) ==
  CASE kind = "transport_err" -> [next |-> "abort", wrote |-> FALSE]
    [] kind = "http_fail"     -> [next |-> "continue", wrote |-> FALSE]
    [] kind = "parse_err"     -> [next |-> "abort", wrote |-> FALSE]
    [] kind = "upsert_err"    -> [next |-> "mark", wrote |-> FALSE]
    [] OTHER                  -> [next |-> "mark", wrote |-> TRUE]

\* what one iteration of process_pending_datasets's loop does with the outcome
\* of the id: next is where the loop goes, wrote whether the document was upserted
DetailStep(kind) ==
  CASE kind = "transport_err" -> [next |-> "abort", wrote |-> FALSE]
    [] kind = "http_fail"     -> [next |-> "continue", wrote |-> FALSE]
    [] kind = "parse_err"     -> [next |-> "abort", wrote |-> FALSE]
    [] kind = "upsert_err"    -> [next |-> "abort", wrote |-> FALSE]
    [] OTHER                  -> [next |-> "mark", wrote |-> TRUE]

\* ------------------------------------------------------------ environment

TicketChoices == IF steady THEN GoodTickets ELSE TicketResponses
StorageChoices == IF steady THEN {TRUE} ELSE BOOLEAN

\* the inputs of one discover_new_ids call: the ticket answer, how the list request
\* ends, the array, whether the read of the known ids works, how many documents
\* insert_many writes (MaxList: all of them). An input the call cannot reach (the
\* array after a failed request, ...) has one value only.
AllDiscoverInputs ==
  LET Rest == [net : {"ok"}, body : ListBodies, readOk : {TRUE}, saved : 0..MaxList] \cup
              [net : {"ok"}, body : ListBodies, readOk : {FALSE}, saved : {MaxList}] \cup
              [net : ListFailures, body : {<< >>}, readOk : {TRUE}, saved : {MaxList}]
  IN {[resp |-> t, net |-> r.net, body |-> r.body, readOk |-> r.readOk, saved |-> r.saved] :
        t \in TicketResponses, r \in Rest}
DiscoverInputs ==
  {i \in AllDiscoverInputs :
     /\ (i.resp.kind # "ok" \/ "DATASET_LIST" \notin i.resp.services)
          => i.net = "ok" /\ i.body = << >> /\ i.readOk /\ i.saved = MaxList
     /\ i.saved < MaxList => i.saved < Len(i.body)}
SteadyDiscoverInputs ==
  {i \in DiscoverInputs :
     i.resp \in GoodTickets /\ i.net = "ok" /\ i.readOk /\ i.saved = MaxList}
DiscoverChoices == IF steady THEN SteadyDiscoverInputs ELSE DiscoverInputs
DetailChoices(id) == IF detail[id] = Unset THEN DetailOutcomes ELSE {detail[id]}

NoDisc ==
  [status |-> "none", err |-> "none", ret |-> 0, name |-> "", ids |-> NoBody,
   repeat |-> FALSE, ticketRequests |-> 0, listRequests |-> 0]
NoProc == [status |-> "none", err |-> "none", ret |-> 0, name |-> "", id |-> ""]
NoDetail == [id \in Ids |-> Unset]

\* ------------------------------------------------- the failure classifier

\* a null column / a None field
Null == "null"
\* status_code: None
NoStatus == 0
\* a text the model does not look into (status text, message, detail, headers)
SomeText == "set"

\* extract_url's None
NoUrl == "no_url"
\* the "schema:url" field of a document: a string, another BSON value, absent
UrlKinds == {"string", "other_bson", "absent"}
\* a dataset document with the given _id and url field
Document(oid, url) ==
  [oid |-> oid, url |-> url, raw_id |-> "r1", name |-> "string",
   center_name |-> "set", date_published |-> "string"]
\* Dataset::extract_url: the url when the field is a string
ExtractUrl(dataset) == IF dataset.url = "string" THEN "url" ELSE NoUrl
\* Dataset::extract_name
ExtractName(dataset) ==
  CASE dataset.name = "string" -> "name"
    [] dataset.name = "document" -> "unknown"
    [] OTHER -> "Unknown"
\* Dataset::extract_date_published
ExtractDatePublished(dataset) ==
  IF dataset.date_published = "string" THEN "date" ELSE "unknown"
\* the MonitorRecord dataset_to_record builds
Placeholder(dataset, t) ==
  [id |-> dataset.oid, raw_id |-> dataset.raw_id, url |-> ExtractUrl(dataset),
   name |-> ExtractName(dataset),
   center_name |-> IF dataset.center_name = "set" THEN "center" ELSE "Unknown",
   date_published |-> ExtractDatePublished(dataset), check_time |-> t,
   status_code |-> NoStatus, status_text |-> Null, error_category |-> Null,
   error_msg |-> Null, error_detail |-> Null, response_time_ms |-> Null,
   is_likely_local_issue |-> FALSE, headers |-> Null]
\* dataset_to_record's None
NoRecord == Placeholder(Document(0, "absent"), 0)

\* ErrorCategory
Categories ==
  {"NetworkConnection", "DnsResolution", "Timeout", "SslCertificate",
   "ConnectionRefused", "ServerError", "ClientError", "TooManyRedirects",
   "RequestCanceled", "Unknown"}

\* the phrases from_request_error looks for in the cause text, and two of them
\* in upper case
CauseWords ==
  {"connection refused", "dns", "DNS", "resolve", "network unreachable",
   "no route to host", "ssl", "SSL", "tls", "certificate"}
\* largest number of these phrases one cause text holds
MaxCauseWords == 2
\* e.source() is None
NoCause == {"no_source"}
\* a cause text, as the set of the phrases it contains
CauseTexts == {t \in SUBSET CauseWords : Cardinality(t) <= MaxCauseWords}

\* to_lowercase of a phrase, and of a text
LowerWord(w) == IF w = "DNS" THEN "dns" ELSE IF w = "SSL" THEN "ssl" ELSE w
ToLowercase(text) == {LowerWord(w) : w \in text}
\* str::contains on a text
Contains(text, w) == w \in text

\* the reqwest errors send() can return
RequestErrors ==
  [timeout : BOOLEAN, connect : BOOLEAN, redirect : BOOLEAN, request : BOOLEAN,
   cause : CauseTexts \cup {NoCause}, status : {NoStatus, 502}]
\* the err field of an answer that is a response
NoError ==
  [timeout |-> FALSE, connect |-> FALSE, redirect |-> FALSE, request |-> FALSE,
   cause |-> NoCause, status |-> NoStatus]

\* the HTTP statuses a response can carry
Statuses ==
  {100, 101, 199, 200, 201, 204, 299, 300, 301, 304, 399, 400, 401, 404, 499,
   500, 502, 503, 599, 600, 999}

\* what a probe request can end in
ProbeInputs ==
  [kind : {"response"}, status : Statuses, err : {NoError}] \cup
  [kind : {"error"}, status : {NoStatus}, err : RequestErrors]

\* from_request_error with the connect test before the timeout test
FromRequestError_ConnectFirst(e) ==
  IF e.connect
    THEN IF e.cause # NoCause
           THEN LET error_str == ToLowercase(e.cause)
                IN IF Contains(error_str, "connection refused") THEN "ConnectionRefused"
                   ELSE IF Contains(error_str, "dns") \/ Contains(error_str, "resolve")
                     THEN "DnsResolution"
                   ELSE "NetworkConnection"
           ELSE "NetworkConnection"
  ELSE IF e.timeout THEN "Timeout"
  ELSE IF e.redirect THEN "TooManyRedirects"
  ELSE IF e.request THEN "RequestCanceled"
  ELSE IF e.cause # NoCause
    THEN LET error_str == ToLowercase(e.cause)
         IN IF Contains(error_str, "ssl") \/ Contains(error_str, "tls")
               \/ Contains(error_str, "certificate")
              THEN "SslCertificate"
              ELSE "Unknown"
  ELSE "Unknown"

\* ErrorCategory::from_request_error
FromRequestError(e) ==
  IF e.timeout THEN "Timeout"
  ELSE IF e.connect
    THEN IF e.cause # NoCause
           THEN LET error_str == ToLowercase(e.cause)
                IN IF Contains(error_str, "connection refused") THEN "ConnectionRefused"
                   ELSE IF Contains(error_str, "dns") \/ Contains(error_str, "resolve")
                     THEN "DnsResolution"
                   ELSE IF Contains(error_str, "network unreachable")
                           \/ Contains(error_str, "no route to host")
                     THEN "NetworkConnection"
                   ELSE "NetworkConnection"
           ELSE "NetworkConnection"
  ELSE IF e.redirect THEN "TooManyRedirects"
  ELSE IF e.request THEN "RequestCanceled"
  ELSE IF e.cause # NoCause
    THEN LET error_str == ToLowercase(e.cause)
         IN IF Contains(error_str, "ssl") \/ Contains(error_str, "tls")
               \/ Contains(error_str, "certificate")
              THEN "SslCertificate"
              ELSE "Unknown"
  ELSE "Unknown"

\* is_likely_local_issue with ConnectionRefused counted as local
IsLikelyLocalIssue_WithRefused(c) ==
  c \in {"NetworkConnection", "DnsResolution", "Timeout", "RequestCanceled",
         "ConnectionRefused"}

\* ErrorCategory::is_likely_local_issue
IsLikelyLocalIssue(c) ==
  c \in {"NetworkConnection", "DnsResolution", "Timeout", "RequestCanceled"}

\* StatusCode::is_success, is_client_error, is_server_error
IsSuccess(status) == 200 <= status /\ status <= 299
IsClientError(status) == 400 <= status /\ status <= 499
IsServerError(status) == 500 <= status /\ status <= 599

OkInfo(status) ==
  [ok |-> TRUE, status_code |-> status, status_text |-> SomeText,
   headers |-> SomeText, category |-> Null, message |-> Null, detail |-> Null]
ErrInfo(cat, status) ==
  [ok |-> FALSE, status_code |-> status, status_text |-> Null, headers |-> Null,
   category |-> cat, message |-> SomeText, detail |-> SomeText]

\* check_url with the 4xx and 5xx branches exchanged
CheckUrl_Exchanged(input) ==
  IF input.kind = "response"
    THEN IF IsSuccess(input.status) THEN OkInfo(input.status)
         ELSE IF IsServerError(input.status) THEN ErrInfo("ClientError", input.status)
         ELSE IF IsClientError(input.status) THEN ErrInfo("ServerError", input.status)
         ELSE OkInfo(input.status)
    ELSE ErrInfo(FromRequestError(input.err), input.err.status)

\* check_url: the Result it returns for what the HEAD request ended in
CheckUrl(input) ==
  IF input.kind = "response"
    THEN IF IsSuccess(input.status) THEN OkInfo(input.status)
         ELSE IF IsServerError(input.status) THEN ErrInfo("ServerError", input.status)
         ELSE IF IsClientError(input.status) THEN ErrInfo("ClientError", input.status)
         ELSE OkInfo(input.status)
    ELSE ErrInfo(FromRequestError(input.err), input.err.status)

\* ErrorCategory's to_string: the name of the variant
CategoryToString(c) == c

\* handle_check_result with the flag always cleared
HandleCheckResult_FlagCleared(record, res) ==
  IF res.ok
    THEN [record EXCEPT !.status_code = res.status_code,
                        !.status_text = res.status_text,
                        !.headers = res.headers,
                        !.error_category = Null,
                        !.error_msg = Null,
                        !.error_detail = Null,
                        !.is_likely_local_issue = FALSE]
    ELSE [record EXCEPT !.status_code = res.status_code,
                        !.error_category = CategoryToString(res.category),
                        !.error_msg = res.message,
                        !.error_detail = res.detail,
                        !.is_likely_local_issue = FALSE]

\* handle_check_result with the Err arm not setting the detail
HandleCheckResult_NoDetail(record, res) ==
  IF res.ok
    THEN [record EXCEPT !.status_code = res.status_code,
                        !.status_text = res.status_text,
                        !.headers = res.headers,
                        !.error_category = Null,
                        !.error_msg = Null,
                        !.error_detail = Null,
                        !.is_likely_local_issue = FALSE]
    ELSE [record EXCEPT !.status_code = res.status_code,
                        !.error_category = CategoryToString(res.category),
                        !.error_msg = res.message,
                        !.is_likely_local_issue = IsLikelyLocalIssue(res.category)]

\* handle_check_result
HandleCheckResult(record, res) ==
  IF res.ok
    THEN [record EXCEPT !.status_code = res.status_code,
                        !.status_text = res.status_text,
                        !.headers = res.headers,
                        !.error_category = Null,
                        !.error_msg = Null,
                        !.error_detail = Null,
                        !.is_likely_local_issue = FALSE]
    ELSE [record EXCEPT !.status_code = res.status_code,
                        !.error_category = CategoryToString(res.category),
                        !.error_msg = res.message,
                        !.error_detail = res.detail,
                        !.is_likely_local_issue = IsLikelyLocalIssue(res.category)]

\* process_record with a failed probe yielding no record
ProcessRecord_DropFailed(record, input, t) ==
  IF CheckUrl(input).ok
    THEN HandleCheckResult([record EXCEPT !.response_time_ms = SomeText, !.check_time = t],
                           CheckUrl(input))
    ELSE NoRecord

\* process_record: the probe of the record's url at time t, answered by input
ProcessRecord(record, input, t) ==
  HandleCheckResult([record EXCEPT !.response_time_ms = SomeText, !.check_time = t],
                    CheckUrl(input))

\* ------------------------------------------------------- the monitoring run

\* largest number of dataset documents the document store holds
MaxDocs == 3
\* largest configured max_concurrent
MaxPool == 2
\* monitoring runs explored
MaxRuns == 1

\* dataset_to_record with the documents without url kept
DatasetToRecord_KeepAll(dataset, t) == Placeholder(dataset, t)

\* dataset_to_record at time t: NoRecord for a document without extractable url
DatasetToRecord(dataset, t) ==
  IF ExtractUrl(dataset) = NoUrl THEN NoRecord ELSE Placeholder(dataset, t)

\* check_all_urls's filter_map over the loaded documents
RECURSIVE ToRecords(_, _)
ToRecords(all_datasets, t) ==
  IF all_datasets = << >> THEN << >>
  ELSE LET r == DatasetToRecord(Head(all_datasets), t)
           rest == ToRecords(Tail(all_datasets), t)
       IN IF r = NoRecord THEN rest ELSE << r >> \o rest

\* nanoseconds (the resolution of Utc::now()) in a microsecond (the resolution
\* of a TIMESTAMP column)
NanosPerMicro == 1000

\* a DateTime<Utc> written as to_rfc3339() text into a TIMESTAMP column: the
\* instant, without the digits below the microsecond
ToTimestamp(t) == t - (t % NanosPerMicro)

\* the row the appender writes for a record; batch is the run that inserted it
Row(record, batch) ==
  [batch |-> batch, id |-> record.id, raw_id |-> record.raw_id, url |-> record.url,
   name |-> record.name, center_name |-> record.center_name,
   date_published |-> record.date_published,
   check_time |-> ToTimestamp(record.check_time), status_code |-> record.status_code,
   status_text |-> record.status_text, error_category |-> record.error_category,
   error_msg |-> record.error_msg, error_detail |-> record.error_detail,
   response_time_ms |-> record.response_time_ms,
   is_likely_local_issue |-> record.is_likely_local_issue, headers |-> record.headers]

\* insert_records with the last record of the batch left out
InsertRecords_DropLast(table, recs, batch) ==
  table \cup {Row(recs[i], batch) : i \in (DOMAIN recs) \ {Len(recs)}}

\* insert_records: one appended row per record, in one transaction
InsertRecords(table, recs, batch) ==
  table \cup {Row(recs[i], batch) : i \in DOMAIN recs}

\* the set-based UPDATE with the first staged row written to every row
UpdateStatus_FirstToAll(table, staged) ==
  IF staged = << >> THEN table
  ELSE {[m EXCEPT !.status_code = staged[1].status_code,
                  !.status_text = staged[1].status_text,
                  !.error_category = staged[1].error_category,
                  !.error_msg = staged[1].error_msg,
                  !.error_detail = staged[1].error_detail,
                  !.response_time_ms = staged[1].response_time_ms,
                  !.is_likely_local_issue = staged[1].is_likely_local_issue,
                  !.headers = staged[1].headers,
                  !.check_time = ToTimestamp(staged[1].check_time)] : m \in table}

\* update_status without the headers column in the SET list
UpdateStatus_WithoutHeaders(table, staged) ==
  {IF \E i \in DOMAIN staged : staged[i].id = m.id
     THEN LET t == staged[CHOOSE i \in DOMAIN staged : staged[i].id = m.id]
          IN [m EXCEPT !.status_code = t.status_code,
                       !.status_text = t.status_text,
                       !.error_category = t.error_category,
                       !.error_msg = t.error_msg,
                       !.error_detail = t.error_detail,
                       !.response_time_ms = t.response_time_ms,
                       !.is_likely_local_issue = t.is_likely_local_issue,
                       !.check_time = ToTimestamp(t.check_time)]
     ELSE m : m \in table}

\* update_status: the staged records joined to the table on id, every result
\* column of a matching row set from its staged record, in one transaction
UpdateStatus(table, staged) ==
  {IF \E i \in DOMAIN staged : staged[i].id = m.id
     THEN LET t == staged[CHOOSE i \in DOMAIN staged : staged[i].id = m.id]
          IN [m EXCEPT !.status_code = t.status_code,
                       !.status_text = t.status_text,
                       !.error_category = t.error_category,
                       !.error_msg = t.error_msg,
                       !.error_detail = t.error_detail,
                       !.response_time_ms = t.response_time_ms,
                       !.is_likely_local_issue = t.is_likely_local_issue,
                       !.headers = t.headers,
                       !.check_time = ToTimestamp(t.check_time)]
     ELSE m : m \in table}

\* check_all_urls with the stream polled before insert_records has returned
ProbingMayStart_BeforeInsert(pos) == pos \in {"loaded", "probing"}

\* check_all_urls builds and polls the stream after insert_records has returned
ProbingMayStart(pos) == pos = "probing"

\* buffer_unordered without its limit
PoolHasRoom_Unbounded(n, max) == TRUE

\* buffer_unordered(max): a future is added while fewer than max are in the pool
PoolHasRoom(n, max) == n < max

\* the answers the probes of a monitoring run are drawn from
MonitorAnswers ==
  {[kind |-> "response", status |-> 200, err |-> NoError],
   [kind |-> "response", status |-> 404, err |-> NoError],
   [kind |-> "error", status |-> NoStatus, err |-> [NoError EXCEPT !.timeout = TRUE]]}
Unasked == [kind |-> "unasked", status |-> NoStatus, err |-> NoError]
NoAnswers == [i \in 1..MaxDocs |-> Unasked]
\* no probe request sent yet
NoneSent == [i \in 1..MaxDocs |-> 0]

\* the values of retry_times explored
RetryTimes == {0, 2}

\* process_record with check_url called again after a failure, up to
\* retry_times more times
Attempts_WithRetries(retry_times) == 1 + retry_times

\* the check_url calls process_record makes at most for one record: one,
\* whatever retry_times is
Attempts(retry_times) == 1

\* a probe that ended in an error or in a 4xx/5xx status
Failed(answer) ==
  answer.kind = "error" \/ IsClientError(answer.status) \/ IsServerError(answer.status)

\* the monitoring run and the single probe at rest
MonitorOff ==
  /\ maxConcurrent = 1
  /\ retryTimes = 0
  /\ sent = NoneSent
  /\ mongoDocs = << >>
  /\ mpc = "idle"
  /\ runNo = 0
  /\ records = << >>
  /\ admitted = 0
  /\ inflight = {}
  /\ results = << >>
  /\ answers = NoAnswers
  /\ rows = {}
  /\ mlast = "init"
  /\ monitorResult = "none"

ProbeOff ==
  /\ probe = Unasked
  /\ pstep = "off"
  /\ checked = OkInfo(NoStatus)
  /\ probed = NoRecord
  /\ stored = {}
  /\ category = "Unknown"
  /\ localIssue = [done |-> FALSE, value |-> FALSE]

\* ------------------------------------------------------ the credential cache

\* latest clock value and number of get_or_refresh_token calls explored
MaxClock == 1
MaxCalls == 3

\* the tasks sharing one fetcher, and the provider names they ask for
Callers == {"c1", "c2"}
Providers == {"P", "Q"}

ListService == [name |-> "DATASET_LIST", version |-> "1.1", url |-> "list"]
DetailsService == [name |-> "GET_DATASET_DETAILS", version |-> "2.0", url |-> "details"]

\* what the ticket endpoint can answer: no response, a body that is no
\* AuthResponse, or an AuthResponse (ttl of 300 s or 301 s, with or without
\* services)
TicketAnswers ==
  {[kind |-> "unreachable", token |-> "", expires |-> 0, service_list |-> << >>],
   [kind |-> "unparsable", token |-> "", expires |-> 0, service_list |-> << >>],
   [kind |-> "ok", token |-> "t1", expires |-> SafetyMargin, service_list |-> << >>],
   [kind |-> "ok", token |-> "t1", expires |-> SafetyMargin + 1,
    service_list |-> << DetailsService, ListService >>],
   [kind |-> "ok", token |-> "t2", expires |-> SafetyMargin + 1,
    service_list |-> << ListService, DetailsService >>]}
NoAnswer == [kind |-> "none", token |-> "", expires |-> 0, service_list |-> << >>]

\* no entry under a name / no TokenInfo returned
NoEntry == [token |-> "none", version |-> "none", services |-> << >>, expires_at |-> 0]

\* the lookup without the expiry test
CachedToken_IgnoreExpiry(cache, name, t) == cache[name]

\* the lookup that never finds an entry
CachedToken_AlwaysMiss(cache, name, t) == NoEntry

\* the cached entry get_or_refresh_token returns (NoEntry: none, go on to refresh)
CachedToken(cache, name, t) ==
  IF cache[name] # NoEntry /\ cache[name].expires_at > t THEN cache[name] ELSE NoEntry

\* auth_resp.service_list.first().map(|s| s.version.clone()).unwrap_or("1.0")
Version(service_list) ==
  IF service_list = << >> THEN "1.0" ELSE service_list[1].version

\* the ServiceInfo list: name and url of every service, in order
Services(service_list) ==
  [i \in DOMAIN service_list |->
     [name |-> service_list[i].name, url |-> service_list[i].url]]

\* a TokenInfo that expires when the ticket does
NewTokenInfo_NoMargin(auth, t) ==
  [token |-> auth.token,
   version |-> Version(auth.service_list),
   services |-> Services(auth.service_list),
   expires_at |-> t + auth.expires]

\* the TokenInfo built from a parsed ticket response at time t
NewTokenInfo(auth, t) ==
  [token |-> auth.token,
   version |-> Version(auth.service_list),
   services |-> Services(auth.service_list),
   expires_at |-> t + (auth.expires - SafetyMargin)]

\* an insert that clears the rest of the map
TokenInsert_Only(cache, name, info) ==
  [n \in DOMAIN cache |-> IF n = name THEN info ELSE NoEntry]

\* an insert that writes field by field and keeps the token of an entry it finds
TokenInsert_Merge(cache, name, info) ==
  [cache EXCEPT ![name] =
     IF cache[name] = NoEntry THEN info ELSE [info EXCEPT !.token = cache[name].token]]

\* self.tokens.insert(name.to_string(), token_info.clone())
TokenInsert(cache, name, info) == [cache EXCEPT ![name] = info]

\* a refresh that drops the cached entry when the ticket request fails
RefreshToken_EvictOnError(cache, name, answer, t) ==
  IF answer.kind # "ok"
    THEN [ok |-> FALSE, cache |-> [cache EXCEPT ![name] = NoEntry], info |-> NoEntry]
    ELSE [ok |-> TRUE, cache |-> TokenInsert(cache, name, NewTokenInfo(answer, t)),
          info |-> NewTokenInfo(answer, t)]

\* get_or_refresh_token from the answer of the ticket request on: the parse, the
\* TokenInfo, the insert
RefreshToken(cache, name, answer, t) ==
  IF answer.kind # "ok"
    THEN [ok |-> FALSE, cache |-> cache, info |-> NoEntry]
    ELSE [ok |-> TRUE, cache |-> TokenInsert(cache, name, NewTokenInfo(answer, t)),
          info |-> NewTokenInfo(answer, t)]

\* a task that has made no call
NoCall ==
  [pos |-> "idle", name |-> "P", seen |-> NoEntry, fresh |-> FALSE, gen |-> 0,
   asked |-> 0, answer |-> NoAnswer, status |-> "none", info |-> NoEntry,
   used |-> 0, op |-> "none"]

\* the credential cache of a fetcher nobody has called
TokenOff ==
  /\ tokenCache = [n \in Providers |-> NoEntry]
  /\ clock = 0
  /\ callers = [c \in Callers |-> NoCall]
  /\ stores = [n \in Providers |-> 0]
  /\ lastStored = [n \in Providers |-> NoEntry]
  /\ calls = 0

\* ------------------------------------------------------ the analytical store

\* largest batch a run passes to insert_records and update_status
MaxBatch == 2

\* the callers sharing the handle: the monitoring run and a reader
StoreTasks == {"monitor", "reader"}

\* the documents a run loads: each with a url, its name a string or absent
StoreDocs ==
  UNION {{[i \in 1..k |-> [Document(i, "string") EXCEPT !.name = f[i]]] :
            f \in [1..k -> {"string", "absent"}]} : k \in 0..MaxBatch}

\* Utc::now() when a probe completes: on a microsecond, and between two
ProbeTimes == {NanosPerMicro, 2 * NanosPerMicro + 500}

\* what the probes of the run end in: a 200 response, a timeout
StoreAnswers ==
  {[kind |-> "response", status |-> 200, err |-> NoError],
   [kind |-> "error", status |-> NoStatus, err |-> [NoError EXCEPT !.timeout = TRUE]]}

\* no temp_updates table
NoTemp == [exists |-> FALSE, rows |-> << >>]

\* a row an earlier run left for the document with _id 1
OldRows ==
  {Row(ProcessRecord(Placeholder(Document(1, "string"), 0),
                     [kind |-> "response", status |-> 404, err |-> NoError], 0), 0)}

\* the emptiness test that never holds
IsEmpty_Never(recs) == FALSE

\* records.is_empty()
IsEmpty(recs) == recs = << >>

\* a guard handed out whoever holds it
MayLock_Always(holder) == TRUE

\* self.conn.lock().await returns when nobody holds the guard
MayLock(holder) == holder = "none"

\* a rollback that leaves the staging table of the failed call in place
Rollback_KeepTemp(saved, table, temp) == [table |-> saved.table, temp |-> temp]

\* the transaction is dropped without commit: table and staging table are as
\* last committed
Rollback(saved, table, temp) == saved

\* a task that has made no call
NoStoreCall == [op |-> "none", pos |-> "idle", result |-> "none", statements |-> 0]

\* the handle nobody uses
StoreOff ==
  /\ tableRows = {}
  /\ tempUpdates = NoTemp
  /\ committed = [table |-> {}, temp |-> NoTemp]
  /\ lockHolder = "none"
  /\ storeTasks = [t \in StoreTasks |-> NoStoreCall]
  /\ runRecords = << >>
  /\ runResults = << >>
  /\ runOutcome = "none"
  /\ readRows = {}

\* ------------------------------------------------------ the run's summary

\* largest number of results of a run
MaxResults == 25

\* success_count: the results whose status code is 200
SuccessCount(rs) == Cardinality({i \in DOMAIN rs : rs[i].status_code = 200})

\* local_issue_count: the results flagged as local issues
LocalIssueCount(rs) == Cardinality({i \in DOMAIN rs : rs[i].is_likely_local_issue})

\* remote_issue_count: the results with a category that are not flagged
RemoteIssueCount(rs) ==
  Cardinality({i \in DOMAIN rs :
                 rs[i].error_category # Null /\ ~rs[i].is_likely_local_issue})

\* the threshold test with >= for >
LocalWarning_AtLeast(local_issue_count, len) == local_issue_count >= len \div 10

\* local_issue_count > results.len() / 10, in unsigned integers
LocalWarning(local_issue_count, len) == local_issue_count > len \div 10

\* no run to summarize
SummaryOff ==
  /\ resultCount = 0
  /\ localIssueCount = 0
  /\ summaryStep = "off"
  /\ warning = FALSE

TypeOK ==
  /\ centers \in Configs
  /\ tokens \in [Names -> {NoToken} \cup [token : {"t1"}, services : SUBSET ServiceNames,
                                          expires_at : Int]]
  /\ idStore \in [Names -> [Ids -> [pending : 0..MaxList, processed : 0..MaxList]]]
  /\ datasets \in [Names -> [RawIds -> Ids \cup {NoDoc}]]
  /\ prevIds \in [Names -> SUBSET Ids \cup {NoBody}]
  /\ detail \in [Ids -> DetailOutcomes \cup {Unset}]
  /\ steady \in BOOLEAN
  /\ pc \in {"idle", "center", "pending", "loop", "upserted"}
  /\ ci \in 0..(Len(centers) + 1)
  /\ count \in 0..(Cardinality(Ids) * MaxList)
  /\ written \subseteq Names \X Ids

InitCommon ==
  /\ tokens = [n \in Names |-> NoToken]
  /\ now = 0
  /\ idStore = [n \in Names |-> [id \in Ids |-> EmptyEntry]]
  /\ datasets = [n \in Names |-> [r \in RawIds |-> NoDoc]]
  /\ prevIds = [n \in Names |-> NoBody]
  /\ pc = "idle"
  /\ ci = 0
  /\ queue = << >>
  /\ count = 0
  /\ lastOp = "init"
  /\ disc = NoDisc
  /\ proc = NoProc
  /\ runPending = << >>
  /\ requested = << >>
  /\ written = {}
  /\ attempted = {}
  /\ failedC = {}
  /\ cycleResult = "none"

\* the fetcher before its first cycle
FetchOff ==
  /\ InitCommon
  /\ centers \in Configs
  /\ detail = NoDetail
  /\ steady = FALSE

Init ==
  /\ FetchOff
  /\ MonitorOff
  /\ ProbeOff
  /\ TokenOff
  /\ StoreOff
  /\ SummaryOff

\* the record of the last run is dropped when the cycle moves on
ForgetRun ==
  /\ proc' = NoProc
  /\ runPending' = << >>
  /\ requested' = << >>
  /\ detail' = IF steady THEN detail ELSE NoDetail

\* a scheduled run: execute_data_fetch builds a new DataFetcher and calls
\* fetch_all_center
StartCycle ==
  /\ UNCHANGED << monitorVars, probeVars, tokenVars, storeVars, summaryVars >>
  /\ pc = "idle"
  /\ pc' = "center"
  /\ ci' = 1
  /\ tokens' = [n \in Names |-> NoToken]
  /\ attempted' = {}
  /\ failedC' = {}
  /\ cycleResult' = "none"
  /\ lastOp' = "start"
  /\ disc' = NoDisc
  /\ ForgetRun
  /\ UNCHANGED << centers, now, idStore, datasets, prevIds, steady, queue, count, written >>

\* fetch_all_center: a center the guard skips
SkipCenter ==
  /\ UNCHANGED << monitorVars, probeVars, tokenVars, storeVars, summaryVars >>
  /\ pc = "center"
  /\ ci <= Len(centers)
  /\ Skipped(centers[ci])
  /\ ci' = ci + 1
  /\ lastOp' = "skip"
  /\ disc' = NoDisc
  /\ ForgetRun
  /\ UNCHANGED << centers, tokens, now, idStore, datasets, prevIds, steady, pc, queue,
                  count, written, attempted, failedC, cycleResult >>

\* fetch_center_data, first half: discover_new_ids of the center
Discover ==
  /\ UNCHANGED << monitorVars, probeVars, tokenVars, storeVars, summaryVars >>
  /\ pc = "center"
  /\ ci <= Len(centers)
  /\ ~Skipped(centers[ci])
  /\ \E i \in DiscoverChoices :
     \E r \in {DiscoverNewIds(idStore, tokens, centers[ci].name, i.resp, i.net, i.body,
                               i.readOk, i.saved, now)} :
       LET name == centers[ci].name
           body == i.body
           gotList == r.err \in {"none", "storage_read", "storage_save"}
       IN /\ steady => r.err = "none"
          /\ tokens' = r.tokens
          /\ idStore' = r.store
          /\ attempted' = attempted \cup {ci}
          /\ disc' = [status |-> IF r.err = "none" THEN "ok" ELSE "err",
                      err |-> r.err, ret |-> r.ret, name |-> name,
                      ids |-> IF gotList THEN Range(AllDatasetIds(body)) ELSE NoBody,
                      repeat |-> gotList /\ Range(AllDatasetIds(body)) = prevIds[name],
                      ticketRequests |-> r.ticketRequests,
                      listRequests |-> r.listRequests]
          /\ prevIds' = [prevIds EXCEPT ![name] =
                           IF r.err = "none" THEN Range(AllDatasetIds(body)) ELSE NoBody]
          /\ IF r.err = "none"
               THEN /\ pc' = "pending"
                    /\ lastOp' = "discover_ok"
                    /\ UNCHANGED << ci, failedC >>
               ELSE /\ pc' = "center"
                    /\ ci' = ci + 1
                    /\ lastOp' = "discover_err"
                    /\ failedC' = failedC \cup {ci}
  /\ ForgetRun
  /\ UNCHANGED << centers, now, datasets, steady, queue, count, written, cycleResult >>

\* the center's fetch_center_data returns Err from process_pending_datasets:
\* fetch_all_center logs it and goes on
Fail(err, id) ==
  /\ proc' = [status |-> "err", err |-> err, ret |-> 0, name |-> centers[ci].name, id |-> id]
  /\ failedC' = failedC \cup {ci}
  /\ ci' = ci + 1
  /\ pc' = "center"
  /\ queue' = << >>
  /\ count' = 0
  /\ lastOp' = "run_err"

\* process_pending_datasets up to its loop: the credential, the details service,
\* the pending ids
ProcessPendingStart ==
  /\ UNCHANGED << monitorVars, probeVars, tokenVars, storeVars, summaryVars >>
  /\ pc = "pending"
  /\ \E resp \in TicketChoices, readOk \in StorageChoices,
        order \in GetUnprocessedIds(idStore, centers[ci].name) :
       LET name == centers[ci].name
           tk == GetOrRefreshToken(tokens, name, resp, now)
           err == IF ~tk.ok THEN "auth"
                  ELSE IF "GET_DATASET_DETAILS" \notin tk.info.services THEN "no_service"
                  ELSE IF ~readOk THEN "storage_read"
                  ELSE "none"
       IN /\ err \in {"auth", "no_service"} => readOk
          /\ tokens' = tk.tokens
          /\ IF err # "none"
               THEN /\ Fail(err, "")
                    /\ runPending' = << >>
               ELSE IF order = << >>
               THEN /\ proc' = [status |-> "ok", err |-> "none", ret |-> 0,
                                name |-> name, id |-> ""]
                    /\ ci' = ci + 1
                    /\ pc' = "center"
                    /\ lastOp' = "run_ok"
                    /\ runPending' = << >>
                    /\ UNCHANGED << queue, count, failedC >>
               ELSE /\ queue' = order
                    /\ runPending' = order
                    /\ count' = 0
                    /\ pc' = "loop"
                    /\ lastOp' = "run_start"
                    /\ UNCHANGED << proc, ci, failedC >>
  /\ requested' = << >>
  /\ disc' = NoDisc
  /\ UNCHANGED << centers, now, idStore, datasets, prevIds, detail, steady, written,
                  attempted, cycleResult >>

\* one iteration of the loop up to the upsert: the details request of the next
\* pending id, the parse of its body, the upsert of the document
Request ==
  /\ UNCHANGED << monitorVars, probeVars, tokenVars, storeVars, summaryVars >>
  /\ pc = "loop"
  /\ queue # << >>
  /\ \E o \in DetailChoices(Head(queue)) :
       LET id == Head(queue)
           name == centers[ci].name
           step == DetailStep(o.kind)
       IN /\ detail' = [detail EXCEPT ![id] = o]
          /\ requested' = Append(requested, id)
          /\ datasets' = IF step.wrote
                           THEN UpsertDataset(datasets, name,
                                              [raw_id |-> o.raw, casdc_id |-> id])
                           ELSE datasets
          /\ written' = IF step.wrote THEN written \cup {<< name, id >>} ELSE written
          /\ IF step.next = "abort"
               THEN Fail(o.kind, id)
               ELSE /\ pc' = IF step.next = "mark" THEN "upserted" ELSE "loop"
                    /\ queue' = IF step.next = "mark" THEN queue ELSE Tail(queue)
                    /\ lastOp' = IF step.next = "mark" THEN "upsert" ELSE "skip_id"
                    /\ UNCHANGED << proc, failedC, ci, count >>
  /\ UNCHANGED << centers, tokens, now, idStore, prevIds, steady, disc, runPending,
                  attempted, cycleResult >>

\* the rest of the iteration: update_processed_ids of the id, count += 1
MarkProcessed ==
  /\ UNCHANGED << monitorVars, probeVars, tokenVars, storeVars, summaryVars >>
  /\ pc = "upserted"
  /\ LET id == Head(queue)
         name == centers[ci].name
     IN IF detail[id].kind = "mark_err"
          THEN /\ Fail("mark_err", id)
               /\ UNCHANGED idStore
          ELSE /\ idStore' = UpdateProcessedIds(idStore, name, {id})
               /\ count' = count + 1
               /\ queue' = Tail(queue)
               /\ pc' = "loop"
               /\ lastOp' = "mark"
               /\ UNCHANGED << proc, failedC, ci >>
  /\ UNCHANGED << centers, tokens, now, datasets, prevIds, detail, steady, disc,
                  runPending, requested, written, attempted, cycleResult >>

\* the loop has handled every pending id: process_pending_datasets returns Ok(count)
FinishRun ==
  /\ UNCHANGED << monitorVars, probeVars, tokenVars, storeVars, summaryVars >>
  /\ pc = "loop"
  /\ queue = << >>
  /\ proc' = [status |-> "ok", err |-> "none", ret |-> count, name |-> centers[ci].name,
              id |-> ""]
  /\ ci' = ci + 1
  /\ pc' = "center"
  /\ count' = 0
  /\ lastOp' = "run_ok"
  /\ UNCHANGED << centers, tokens, now, idStore, datasets, prevIds, detail, steady, queue,
                  disc, runPending, requested, written, attempted, failedC, cycleResult >>

\* fetch_all_center has walked every center: it returns Ok(()), and the fetcher
\* with its credential cache is dropped
EndCycle ==
  /\ UNCHANGED << monitorVars, probeVars, tokenVars, storeVars, summaryVars >>
  /\ pc = "center"
  /\ ci > Len(centers)
  /\ pc' = "idle"
  /\ ci' = 0
  /\ tokens' = [n \in Names |-> NoToken]
  /\ cycleResult' = "ok"
  /\ lastOp' = "end"
  /\ disc' = NoDisc
  /\ ForgetRun
  /\ UNCHANGED << centers, now, idStore, datasets, prevIds, steady, queue, count, written,
                  attempted, failedC >>

\* the process dies in the middle of a cycle
Crash ==
  /\ UNCHANGED << monitorVars, probeVars, tokenVars, storeVars, summaryVars >>
  /\ ~steady
  /\ pc # "idle"
  /\ pc' = "idle"
  /\ ci' = 0
  /\ tokens' = [n \in Names |-> NoToken]
  /\ queue' = << >>
  /\ count' = 0
  /\ cycleResult' = "crashed"
  /\ lastOp' = "crash"
  /\ disc' = NoDisc
  /\ attempted' = {}
  /\ failedC' = {}
  /\ ForgetRun
  /\ UNCHANGED << centers, now, idStore, datasets, prevIds, steady, written >>

\* the steps of the program
Program ==
  \/ StartCycle
  \/ SkipCenter
  \/ Discover
  \/ ProcessPendingStart
  \/ Request
  \/ MarkProcessed
  \/ FinishRun
  \/ EndCycle

Next ==
  \/ Program
  \/ Crash

Spec == Init /\ [][Next]_vars

\* a provider whose answers never change and an infrastructure that works: every
\* id has one fixed details outcome, and cycles follow one another
SteadyDetails ==
  [kind : {"http_fail", "transport_err", "parse_err"}, raw : {""}] \cup
  [kind : {"ok"}, raw : RawIds]

InitSteady ==
  /\ InitCommon
  /\ centers \in Configs
  /\ detail \in [Ids -> SteadyDetails]
  /\ steady = TRUE
  /\ MonitorOff
  /\ ProbeOff
  /\ TokenOff
  /\ StoreOff
  /\ SummaryOff

\* the scheduler starts cycle after cycle and every started cycle runs on
FairSpec == InitSteady /\ [][Program]_vars /\ WF_vars(Program)

\* --------------------------------------------- discover_new_ids, call by call

\* the dedup stores a call can find: for every center the same ids known, all of
\* them pending or all of them processed
KnownStores ==
  {[n \in Names |->
      [id \in Ids |-> IF id \in known
                        THEN [pending |-> p, processed |-> 1 - p]
                        ELSE EmptyEntry]] :
     known \in SUBSET Ids, p \in {0, 1}}

\* the ticket answers of a call: no answer, a credential without the list
\* service, one that has expired when it is stored, one that lasts
CallTickets ==
  {t \in TicketResponses :
     \/ t.kind = "unreachable"
     \/ t.kind = "ok" /\ t.services = {"GET_DATASET_DETAILS"}
     \/ t.kind = "ok" /\ t.services = ServiceNames}

\* the arrays of a call: empty, one id, two ids, one id twice, an entry
\* without id
CallBodies == {<< >>, << "a" >>, << "a", "b" >>, << "a", "a" >>, << NoId, "b" >>}

\* the inputs of one call, the body of a response with a failure status
\* included: it can be any text, an array of ids too
DiscoverCallInputs ==
  LET Rest == [net : {"ok"}, body : CallBodies, readOk : BOOLEAN, saved : {MaxList}] \cup
              {x \in [net : {"ok"}, body : CallBodies, readOk : {TRUE}, saved : {0, 1}] :
                 x.saved < Len(x.body)} \cup
              [net : {"unauthorized", "redirect", "http_err"}, body : CallBodies,
               readOk : {TRUE}, saved : {MaxList}] \cup
              [net : {"transport_err", "not_json", "not_array"}, body : {<< >>},
               readOk : {TRUE}, saved : {MaxList}]
  IN {[resp |-> t, net |-> r.net, body |-> r.body, readOk |-> r.readOk, saved |-> r.saved] :
        t \in CallTickets, r \in Rest}

\* a fetcher with an empty credential cache over a store that holds records
DiscoverInit ==
  /\ MonitorOff
  /\ ProbeOff
  /\ TokenOff
  /\ StoreOff
  /\ SummaryOff
  /\ centers \in Configs
  /\ tokens = [n \in Names |-> NoToken]
  /\ now = 0
  /\ idStore \in KnownStores
  /\ datasets = [n \in Names |-> [r \in RawIds |-> NoDoc]]
  /\ prevIds = [n \in Names |-> NoBody]
  /\ detail = NoDetail
  /\ steady = FALSE
  /\ pc = "center"
  /\ ci = 1
  /\ queue = << >>
  /\ count = 0
  /\ lastOp = "init"
  /\ disc = NoDisc
  /\ proc = NoProc
  /\ runPending = << >>
  /\ requested = << >>
  /\ written = {}
  /\ attempted = {}
  /\ failedC = {}
  /\ cycleResult = "none"

\* one discover_new_ids call for the center of the configuration that passes
\* fetch_all_center's guard; disc keeps the body of the list response with it
DiscoverCall ==
  /\ UNCHANGED << monitorVars, probeVars, tokenVars, storeVars, summaryVars >>
  /\ pc = "center"
  /\ ~Skipped(centers[ci])
  /\ \E i \in DiscoverCallInputs :
       LET name == centers[ci].name
           r == DiscoverNewIds(idStore, tokens, name, i.resp, i.net, i.body, i.readOk,
                               i.saved, now)
           gotList == r.err \in {"none", "storage_read", "storage_save"}
       IN /\ tokens' = r.tokens
          /\ idStore' = r.store
          /\ disc' = [status |-> IF r.err = "none" THEN "ok" ELSE "err",
                      err |-> r.err, ret |-> r.ret, name |-> name,
                      ids |-> IF gotList THEN Range(AllDatasetIds(i.body)) ELSE NoBody,
                      repeat |-> FALSE,
                      ticketRequests |-> r.ticketRequests,
                      listRequests |-> r.listRequests,
                      body |-> i.body]
          /\ lastOp' = IF r.err = "none" THEN "discover_ok" ELSE "discover_err"
  /\ UNCHANGED << centers, now, datasets, prevIds, detail, steady, pc, ci, queue, count,
                  proc, runPending, requested, written, attempted, failedC, cycleResult >>

\* a later fetcher: the credential cache starts empty again
NewFetcher ==
  /\ UNCHANGED << monitorVars, probeVars, tokenVars, storeVars, summaryVars >>
  /\ pc = "center"
  /\ tokens # [n \in Names |-> NoToken]
  /\ tokens' = [n \in Names |-> NoToken]
  /\ lastOp' = "start"
  /\ disc' = NoDisc
  /\ UNCHANGED << centers, now, idStore, datasets, prevIds, detail, steady, pc, ci, queue,
                  count, proc, runPending, requested, written, attempted, failedC,
                  cycleResult >>

DiscoverNext ==
  \/ DiscoverCall
  \/ NewFetcher

DiscoverSpec == DiscoverInit /\ [][DiscoverNext]_vars

\* ------------------------------------------- the steps of a monitoring run

\* the document stores a run can find: up to MaxDocs documents, each with its
\* own _id
DocStores ==
  UNION {{[i \in 1..k |-> Document(i, f[i])] : f \in [1..k -> UrlKinds]} :
           k \in 0..MaxDocs}

\* the state before the first run, for the given configured pool sizes and
\* retry counts and the given document stores
MonitorStart(pools, retries, docStores) ==
  /\ FetchOff
  /\ ProbeOff
  /\ TokenOff
  /\ StoreOff
  /\ SummaryOff
  /\ maxConcurrent \in pools
  /\ retryTimes \in retries
  /\ sent = NoneSent
  /\ mongoDocs \in docStores
  /\ mpc = "idle"
  /\ runNo = 0
  /\ records = << >>
  /\ admitted = 0
  /\ inflight = {}
  /\ results = << >>
  /\ answers = NoAnswers
  /\ rows = {}
  /\ mlast = "init"
  /\ monitorResult = "none"

\* every pool size and every document store; retry_times, which monitor.rs
\* reads nowhere, left at 0
MonitorInit == MonitorStart(0..MaxPool, {0}, DocStores)

\* the document stores in which every document has a string url
UrlStores == {s \in DocStores : \A i \in DOMAIN s : s[i].url = "string"}

\* every retry_times, with the smallest and the largest pool that admit and
\* documents that all yield a record
RetryInit == MonitorStart({1, MaxPool}, RetryTimes, UrlStores)

\* check_all_urls returns Err
RunFails(op) ==
  /\ mpc' = "idle"
  /\ mlast' = op
  /\ monitorResult' = "err"

\* a scheduled run: check_all_urls opens the stores, loads the documents of
\* every center and builds the records
LoadDatasets ==
  /\ UNCHANGED << fetchVars, probeVars, tokenVars, storeVars, summaryVars >>
  /\ mpc = "idle"
  /\ runNo < MaxRuns
  /\ runNo' = runNo + 1
  /\ admitted' = 0
  /\ inflight' = {}
  /\ results' = << >>
  /\ answers' = NoAnswers
  /\ sent' = NoneSent
  /\ \E loadOk \in BOOLEAN :
       IF loadOk
         THEN /\ records' = ToRecords(mongoDocs, runNo + 1)
              /\ mpc' = "loaded"
              /\ mlast' = "load"
              /\ monitorResult' = "none"
         ELSE /\ records' = << >>
              /\ RunFails("load_err")
  /\ UNCHANGED << maxConcurrent, retryTimes, mongoDocs, rows >>

\* duckdb_.insert_records(&records).await?
InsertPlaceholders ==
  /\ UNCHANGED << fetchVars, probeVars, tokenVars, storeVars, summaryVars >>
  /\ mpc = "loaded"
  /\ \E insertOk \in BOOLEAN :
       IF insertOk \/ records = << >>
         THEN /\ rows' = InsertRecords(rows, records, runNo)
              /\ mpc' = "probing"
              /\ mlast' = "insert"
              /\ UNCHANGED monitorResult
         ELSE /\ RunFails("insert_err")
              /\ UNCHANGED rows
  /\ UNCHANGED << maxConcurrent, retryTimes, mongoDocs, runNo, records, admitted,
                  inflight, results, answers, sent >>

\* buffer_unordered takes the next record from the stream while the pool has
\* room: its process_record future starts and sends the request
Admit ==
  /\ UNCHANGED << fetchVars, probeVars, tokenVars, storeVars, summaryVars >>
  /\ ProbingMayStart(mpc)
  /\ admitted < Len(records)
  /\ PoolHasRoom(Cardinality(inflight), maxConcurrent)
  /\ admitted' = admitted + 1
  /\ inflight' = inflight \cup {admitted + 1}
  /\ sent' = [sent EXCEPT ![records[admitted + 1].id] = @ + 1]
  /\ mlast' = "admit"
  /\ UNCHANGED << maxConcurrent, retryTimes, mongoDocs, mpc, runNo, records, results,
                  answers, rows, monitorResult >>

\* the request of one probe in the pool ends: process_record returns its
\* record, unless it has check_url calls left for a request that failed
Complete ==
  /\ UNCHANGED << fetchVars, probeVars, tokenVars, storeVars, summaryVars >>
  /\ mpc = "probing"
  /\ \E i \in inflight, a \in MonitorAnswers :
       IF Failed(a) /\ sent[records[i].id] < Attempts(retryTimes)
         THEN /\ sent' = [sent EXCEPT ![records[i].id] = @ + 1]
              /\ UNCHANGED << inflight, results, answers >>
         ELSE /\ inflight' = inflight \ {i}
              /\ results' = Append(results, ProcessRecord(records[i], a, runNo))
              /\ answers' = [answers EXCEPT ![records[i].id] = a]
              /\ UNCHANGED sent
  /\ mlast' = "complete"
  /\ UNCHANGED << maxConcurrent, retryTimes, mongoDocs, mpc, runNo, records, admitted,
                  rows, monitorResult >>

\* the stream is exhausted and the pool is empty: collect returns, then
\* duckdb_.update_status(&results).await? and Ok(())
BulkUpdate ==
  /\ UNCHANGED << fetchVars, probeVars, tokenVars, storeVars, summaryVars >>
  /\ mpc = "probing"
  /\ maxConcurrent > 0
  /\ admitted = Len(records)
  /\ inflight = {}
  /\ \E updateOk \in BOOLEAN :
       IF updateOk \/ results = << >>
         THEN /\ rows' = UpdateStatus(rows, results)
              /\ mpc' = "idle"
              /\ mlast' = "update"
              /\ monitorResult' = "ok"
         ELSE /\ RunFails("update_err")
              /\ UNCHANGED rows
  /\ UNCHANGED << maxConcurrent, retryTimes, mongoDocs, runNo, records, admitted,
                  inflight, results, answers, sent >>

\* the process dies during a run: an open transaction is rolled back
MonitorCrash ==
  /\ UNCHANGED << fetchVars, probeVars, tokenVars, storeVars, summaryVars >>
  /\ mpc # "idle"
  /\ mpc' = "idle"
  /\ mlast' = IF mpc = "probing" THEN "crash_probing" ELSE "crash"
  /\ monitorResult' = "crashed"
  /\ inflight' = {}
  /\ UNCHANGED << maxConcurrent, retryTimes, mongoDocs, runNo, records, admitted,
                  results, answers, sent, rows >>

MonitorNext ==
  \/ LoadDatasets
  \/ InsertPlaceholders
  \/ Admit
  \/ Complete
  \/ BulkUpdate
  \/ MonitorCrash

MonitorSpec == MonitorInit /\ [][MonitorNext]_vars

\* the runs under every configured retry_times
RetrySpec == RetryInit /\ [][MonitorNext]_vars

\* the steps of a run whose process stays alive
MonitorProgram ==
  \/ LoadDatasets
  \/ InsertPlaceholders
  \/ Admit
  \/ Complete
  \/ BulkUpdate

\* the runtime keeps polling the stream (Admit, BulkUpdate) and every request
\* in the pool returns or hits the client's timeout (Complete)
MonitorFairSpec ==
  /\ MonitorInit
  /\ [][MonitorProgram]_vars
  /\ WF_vars(Admit)
  /\ WF_vars(Complete)
  /\ WF_vars(BulkUpdate)

\* ---------------------------------------------------- one probe, any answer

ProbeInit ==
  /\ FetchOff
  /\ MonitorOff
  /\ TokenOff
  /\ StoreOff
  /\ SummaryOff
  /\ probe \in ProbeInputs
  /\ pstep = "new"
  /\ checked = OkInfo(NoStatus)
  /\ probed = DatasetToRecord(Document(1, "string"), 0)
  /\ stored = {}
  /\ category \in Categories
  /\ localIssue = [done |-> FALSE, value |-> FALSE]

\* insert_records of the record
InsertOne ==
  /\ UNCHANGED << fetchVars, monitorVars, tokenVars, storeVars, summaryVars >>
  /\ pstep = "new"
  /\ stored' = InsertRecords(stored, << probed >>, 1)
  /\ pstep' = "inserted"
  /\ UNCHANGED << probe, checked, probed, category, localIssue >>

\* process_record of the record
ProbeOne ==
  /\ UNCHANGED << fetchVars, monitorVars, tokenVars, storeVars, summaryVars >>
  /\ pstep = "inserted"
  /\ checked' = CheckUrl(probe)
  /\ probed' = ProcessRecord(probed, probe, 1)
  /\ pstep' = "processed"
  /\ UNCHANGED << probe, stored, category, localIssue >>

\* update_status of the result
UpdateOne ==
  /\ UNCHANGED << fetchVars, monitorVars, tokenVars, storeVars, summaryVars >>
  /\ pstep = "processed"
  /\ stored' = UpdateStatus(stored, << probed >>)
  /\ pstep' = "stored"
  /\ UNCHANGED << probe, checked, probed, category, localIssue >>

\* is_likely_local_issue of the category
LocalIssueOf ==
  /\ UNCHANGED << fetchVars, monitorVars, tokenVars, storeVars, summaryVars >>
  /\ ~localIssue.done
  /\ localIssue' = [done |-> TRUE, value |-> IsLikelyLocalIssue(category)]
  /\ UNCHANGED << probe, pstep, checked, probed, stored, category >>

ProbeNext ==
  \/ InsertOne
  \/ ProbeOne
  \/ UpdateOne
  \/ LocalIssueOf

ProbeSpec == ProbeInit /\ [][ProbeNext]_vars

\* ------------------------------------------------------------------ claims

\* --------------------------- concurrent calls of get_or_refresh_token

TokenInit ==
  /\ FetchOff
  /\ MonitorOff
  /\ ProbeOff
  /\ TokenOff
  /\ StoreOff
  /\ SummaryOff

\* time passes
Tick ==
  /\ UNCHANGED << fetchVars, monitorVars, probeVars, storeVars, summaryVars >>
  /\ clock < MaxClock
  /\ clock' = clock + 1
  /\ UNCHANGED << tokenCache, callers, stores, lastStored, calls >>

\* a task enters discover_new_ids or process_pending_datasets for a provider
\* and calls get_or_refresh_token
TokenCall(c, name) ==
  /\ UNCHANGED << fetchVars, monitorVars, probeVars, storeVars, summaryVars >>
  /\ callers[c].pos = "idle"
  /\ calls < MaxCalls
  /\ calls' = calls + 1
  /\ callers' = [callers EXCEPT ![c] = [NoCall EXCEPT !.pos = "lookup", !.name = name]]
  /\ UNCHANGED << tokenCache, clock, stores, lastStored >>

\* the cache check: an entry that has not expired is returned, otherwise the
\* ticket request is sent
TokenLookup(c) ==
  /\ UNCHANGED << fetchVars, monitorVars, probeVars, storeVars, summaryVars >>
  /\ callers[c].pos = "lookup"
  /\ LET name == callers[c].name
         entry == tokenCache[name]
         hit == CachedToken(tokenCache, name, clock)
         call == [callers[c] EXCEPT
                    !.seen = entry,
                    !.fresh = entry # NoEntry /\ entry.expires_at > clock,
                    !.gen = stores[name]]
     IN callers' = [callers EXCEPT ![c] =
                      IF hit # NoEntry
                        THEN [call EXCEPT !.pos = "returned", !.status = "ok",
                                          !.info = hit]
                        ELSE [call EXCEPT !.pos = "sending", !.asked = 1]]
  /\ UNCHANGED << tokenCache, clock, stores, lastStored, calls >>

\* the ticket request ends: an error is returned, or the response is parsed,
\* the TokenInfo is built, inserted and returned
TokenReceive(c) ==
  /\ UNCHANGED << fetchVars, monitorVars, probeVars, storeVars, summaryVars >>
  /\ callers[c].pos = "sending"
  /\ \E answer \in TicketAnswers :
       LET name == callers[c].name
           r == RefreshToken(tokenCache, name, answer, clock)
       IN /\ tokenCache' = r.cache
          /\ stores' = IF r.ok THEN [stores EXCEPT ![name] = @ + 1] ELSE stores
          /\ lastStored' = IF r.ok THEN [lastStored EXCEPT ![name] = r.info]
                           ELSE lastStored
          /\ callers' = [callers EXCEPT ![c] =
                           [@ EXCEPT !.pos = "returned", !.answer = answer,
                                     !.status = IF r.ok THEN "ok" ELSE "err",
                                     !.info = r.info]]
  /\ UNCHANGED << clock, calls >>

\* the calling operation goes on: `?` returns the error of the call, otherwise
\* the operation looks up its service and sends its own request
OperationContinues(c) ==
  /\ UNCHANGED << fetchVars, monitorVars, probeVars, storeVars, summaryVars >>
  /\ callers[c].pos = "returned"
  /\ callers' = [callers EXCEPT ![c] =
                   IF callers[c].status = "ok"
                     THEN [@ EXCEPT !.pos = "idle", !.used = 1, !.op = "requested"]
                     ELSE [@ EXCEPT !.pos = "idle", !.op = "auth_err"]]
  /\ UNCHANGED << tokenCache, clock, stores, lastStored, calls >>

TokenNext ==
  \/ Tick
  \/ \E c \in Callers, name \in Providers : TokenCall(c, name)
  \/ \E c \in Callers : TokenLookup(c)
  \/ \E c \in Callers : TokenReceive(c)
  \/ \E c \in Callers : OperationContinues(c)

TokenSpec == TokenInit /\ [][TokenNext]_vars


\* ------------------------------- the calls on one DuckDB handle, step by step

\* the handle after DuckDB::new, the table empty or holding an earlier run's row
StoreInit ==
  /\ FetchOff
  /\ MonitorOff
  /\ ProbeOff
  /\ TokenOff
  /\ SummaryOff
  /\ tableRows \in {{}, OldRows}
  /\ tempUpdates = NoTemp
  /\ committed = [table |-> tableRows, temp |-> NoTemp]
  /\ lockHolder = "none"
  /\ storeTasks = [t \in StoreTasks |-> NoStoreCall]
  /\ runRecords = << >>
  /\ runResults = << >>
  /\ runOutcome = "none"
  /\ readRows = {}

OtherVarsUnchanged ==
  UNCHANGED << fetchVars, monitorVars, probeVars, tokenVars, summaryVars >>

\* the call of task t returns: the guard, if held, is dropped
Returns(t, result) ==
  /\ storeTasks' = [storeTasks EXCEPT ![t] = [@ EXCEPT !.pos = "returned",
                                                       !.result = result]]
  /\ lockHolder' = IF lockHolder = t THEN "none" ELSE lockHolder

\* a step of the call of task t fails: `?` returns the error, the transaction
\* is dropped and rolls back, the guard is dropped
Fails(t) ==
  /\ Returns(t, "err")
  /\ tableRows' = Rollback(committed, tableRows, tempUpdates).table
  /\ tempUpdates' = Rollback(committed, tableRows, tempUpdates).temp
  /\ UNCHANGED committed

\* task t goes on to position pos, having issued one more statement
Issues(t, pos) ==
  storeTasks' = [storeTasks EXCEPT ![t] = [@ EXCEPT !.pos = pos,
                                                    !.statements = @ + 1]]

\* check_all_urls builds its records and calls insert_records
CallInsert ==
  /\ OtherVarsUnchanged
  /\ storeTasks["monitor"].op = "none"
  /\ \E docs \in StoreDocs :
       /\ runRecords' = ToRecords(docs, 0)
       /\ storeTasks' = [storeTasks EXCEPT !["monitor"] =
            IF IsEmpty(ToRecords(docs, 0))
              THEN [op |-> "insert", pos |-> "returned", result |-> "ok", statements |-> 0]
              ELSE [op |-> "insert", pos |-> "waiting", result |-> "none", statements |-> 0]]
  /\ UNCHANGED << tableRows, tempUpdates, committed, lockHolder, runResults, runOutcome,
                  readRows >>

\* insert_records has returned: on Err check_all_urls returns it; on Ok the
\* probes run and check_all_urls calls update_status with their results
CallUpdate ==
  /\ OtherVarsUnchanged
  /\ storeTasks["monitor"].op = "insert"
  /\ storeTasks["monitor"].pos = "returned"
  /\ runOutcome = "none"
  /\ IF storeTasks["monitor"].result = "err"
       THEN /\ runOutcome' = "err"
            /\ UNCHANGED << storeTasks, runResults >>
       ELSE \E a \in [DOMAIN runRecords -> StoreAnswers],
               at \in [DOMAIN runRecords -> ProbeTimes] :
              LET res == [i \in DOMAIN runRecords |->
                            ProcessRecord(runRecords[i], a[i], at[i])]
              IN /\ runResults' = res
                 /\ storeTasks' = [storeTasks EXCEPT !["monitor"] =
                      IF IsEmpty(res)
                        THEN [op |-> "update", pos |-> "returned", result |-> "ok",
                              statements |-> 0]
                        ELSE [op |-> "update", pos |-> "waiting", result |-> "none",
                              statements |-> 0]]
                 /\ UNCHANGED runOutcome
  /\ UNCHANGED << tableRows, tempUpdates, committed, lockHolder, runRecords, readRows >>

\* update_status has returned: check_all_urls returns its error, or Ok
EndRun ==
  /\ OtherVarsUnchanged
  /\ storeTasks["monitor"].op = "update"
  /\ storeTasks["monitor"].pos = "returned"
  /\ runOutcome = "none"
  /\ runOutcome' = storeTasks["monitor"].result
  /\ UNCHANGED << tableRows, tempUpdates, committed, lockHolder, storeTasks, runRecords,
                  runResults, readRows >>

\* the reader calls a read query
CallRead ==
  /\ OtherVarsUnchanged
  /\ storeTasks["reader"].pos \in {"idle", "returned"}
  /\ storeTasks' = [storeTasks EXCEPT !["reader"] =
                      [op |-> "read", pos |-> "waiting", result |-> "none", statements |-> 0]]
  /\ UNCHANGED << tableRows, tempUpdates, committed, lockHolder, runRecords, runResults,
                  runOutcome, readRows >>

\* self.conn.lock().await
AcquireLock(t) ==
  /\ OtherVarsUnchanged
  /\ storeTasks[t].pos = "waiting"
  /\ MayLock(lockHolder)
  /\ lockHolder' = t
  /\ storeTasks' = [storeTasks EXCEPT ![t] = [@ EXCEPT !.pos = "locked"]]
  /\ UNCHANGED << tableRows, tempUpdates, committed, runRecords, runResults, runOutcome,
                  readRows >>

\* the query of the reader: prepare, query_map, collect
Query ==
  /\ OtherVarsUnchanged
  /\ storeTasks["reader"].pos = "locked"
  /\ \E ok \in BOOLEAN :
       IF ok
         THEN /\ readRows' = tableRows
              /\ storeTasks' = [storeTasks EXCEPT !["reader"] =
                                  [@ EXCEPT !.pos = "returned", !.result = "ok",
                                            !.statements = @ + 1]]
         ELSE /\ readRows' = {}
              /\ storeTasks' = [storeTasks EXCEPT !["reader"] =
                                  [@ EXCEPT !.pos = "returned", !.result = "err"]]
  /\ lockHolder' = "none"
  /\ UNCHANGED << tableRows, tempUpdates, committed, runRecords, runResults, runOutcome >>

\* conn.unchecked_transaction()?
BeginTransaction ==
  /\ OtherVarsUnchanged
  /\ storeTasks["monitor"].pos = "locked"
  /\ \E ok \in BOOLEAN :
       IF ok
         THEN /\ Issues("monitor", "tx")
              /\ UNCHANGED << tableRows, tempUpdates, committed, lockHolder >>
         ELSE Fails("monitor")
  /\ UNCHANGED << runRecords, runResults, runOutcome, readRows >>

\* insert_records: the appender on dataset_monitor, one append_row per record,
\* flush
AppendRows ==
  /\ OtherVarsUnchanged
  /\ storeTasks["monitor"].op = "insert"
  /\ storeTasks["monitor"].pos = "tx"
  /\ \E ok \in BOOLEAN :
       IF ok
         THEN /\ tableRows' = InsertRecords(tableRows, runRecords, 1)
              /\ Issues("monitor", "written")
              /\ UNCHANGED << tempUpdates, committed, lockHolder >>
         ELSE Fails("monitor")
  /\ UNCHANGED << runRecords, runResults, runOutcome, readRows >>

\* update_status: CREATE TEMPORARY TABLE temp_updates, which fails when the
\* table exists
CreateTemp ==
  /\ OtherVarsUnchanged
  /\ storeTasks["monitor"].op = "update"
  /\ storeTasks["monitor"].pos = "tx"
  /\ \E ok \in BOOLEAN :
       IF ok /\ ~tempUpdates.exists
         THEN /\ tempUpdates' = [exists |-> TRUE, rows |-> << >>]
              /\ Issues("monitor", "created")
              /\ UNCHANGED << tableRows, committed, lockHolder >>
         ELSE Fails("monitor")
  /\ UNCHANGED << runRecords, runResults, runOutcome, readRows >>

\* update_status: the appender on temp_updates, one append_row per record, flush
StageRows ==
  /\ OtherVarsUnchanged
  /\ storeTasks["monitor"].pos = "created"
  /\ \E ok \in BOOLEAN :
       IF ok
         THEN /\ tempUpdates' = [exists |-> TRUE, rows |-> runResults]
              /\ Issues("monitor", "staged")
              /\ UNCHANGED << tableRows, committed, lockHolder >>
         ELSE Fails("monitor")
  /\ UNCHANGED << runRecords, runResults, runOutcome, readRows >>

\* update_status: UPDATE dataset_monitor ... FROM temp_updates WHERE m.id = t.id
JoinUpdate ==
  /\ OtherVarsUnchanged
  /\ storeTasks["monitor"].pos = "staged"
  /\ \E ok \in BOOLEAN :
       IF ok
         THEN /\ tableRows' = UpdateStatus(tableRows, tempUpdates.rows)
              /\ Issues("monitor", "updated")
              /\ UNCHANGED << tempUpdates, committed, lockHolder >>
         ELSE Fails("monitor")
  /\ UNCHANGED << runRecords, runResults, runOutcome, readRows >>

\* update_status: DROP TABLE temp_updates
DropTemp ==
  /\ OtherVarsUnchanged
  /\ storeTasks["monitor"].pos = "updated"
  /\ \E ok \in BOOLEAN :
       IF ok
         THEN /\ tempUpdates' = NoTemp
              /\ Issues("monitor", "written")
              /\ UNCHANGED << tableRows, committed, lockHolder >>
         ELSE Fails("monitor")
  /\ UNCHANGED << runRecords, runResults, runOutcome, readRows >>

\* tx.commit()?, then Ok(())
CommitTransaction ==
  /\ OtherVarsUnchanged
  /\ storeTasks["monitor"].pos = "written"
  /\ \E ok \in BOOLEAN :
       IF ok
         THEN /\ committed' = [table |-> tableRows, temp |-> tempUpdates]
              /\ storeTasks' = [storeTasks EXCEPT !["monitor"] =
                                  [@ EXCEPT !.pos = "returned", !.result = "ok",
                                            !.statements = @ + 1]]
              /\ lockHolder' = IF lockHolder = "monitor" THEN "none" ELSE lockHolder
              /\ UNCHANGED << tableRows, tempUpdates >>
         ELSE Fails("monitor")
  /\ UNCHANGED << runRecords, runResults, runOutcome, readRows >>

StoreNext ==
  \/ CallInsert
  \/ CallUpdate
  \/ EndRun
  \/ CallRead
  \/ \E t \in StoreTasks : AcquireLock(t)
  \/ Query
  \/ BeginTransaction
  \/ AppendRows
  \/ CreateTemp
  \/ StageRows
  \/ JoinUpdate
  \/ DropTemp
  \/ CommitTransaction

StoreSpec == StoreInit /\ [][StoreNext]_vars


\* ------------------------------------------ the end of a monitoring run

\* the probes of a run have completed: any number of results, any number of
\* them flagged as local issues
SummaryInit ==
  /\ FetchOff
  /\ MonitorOff
  /\ ProbeOff
  /\ TokenOff
  /\ StoreOff
  /\ resultCount \in 0..MaxResults
  /\ localIssueCount \in 0..resultCount
  /\ summaryStep = "probed"
  /\ warning = FALSE

\* update_status returns Err: check_all_urls returns it before the counts
UpdateFails ==
  /\ UNCHANGED << fetchVars, monitorVars, probeVars, tokenVars, storeVars >>
  /\ summaryStep = "probed"
  /\ summaryStep' = "failed"
  /\ UNCHANGED << resultCount, localIssueCount, warning >>

\* update_status returned Ok: the counts are logged and the warning is emitted
\* when the local issues are too many
Summarize ==
  /\ UNCHANGED << fetchVars, monitorVars, probeVars, tokenVars, storeVars >>
  /\ summaryStep = "probed"
  /\ summaryStep' = "done"
  /\ warning' = LocalWarning(localIssueCount, resultCount)
  /\ UNCHANGED << resultCount, localIssueCount >>

SummaryNext ==
  \/ UpdateFails
  \/ Summarize

SummarySpec == SummaryInit /\ [][SummaryNext]_vars


Pending(n, id) == idStore[n][id].pending > 0
Processed(n, id) == idStore[n][id].processed > 0
Total(store, n, id) == store[n][id].pending + store[n][id].processed
RunEnded == lastOp \in {"run_ok", "run_err"}
DiscoverStep == pc = "center" /\ lastOp' \in {"discover_ok", "discover_err"}

\* C1: in every step, for every center and id, no processed record goes back to
\* pending or disappears: the number of processed records never decreases and
\* the number of records never decreases.
C1_StatusOnlyPendingToProcessed ==
  [][\A n \in Names, id \in Ids :
       /\ idStore'[n][id].processed >= idStore[n][id].processed
       /\ Total(idStore', n, id) >= Total(idStore, n, id)]_vars

\* a discovery has run after an id was processed, and the id is still processed
C1_Witness ==
  /\ lastOp = "discover_ok"
  /\ \E id \in Ids : Processed("", id) /\ id \in disc.ids

\* C2: no step, and so no discovery run, adds a record for an id the store
\* already holds a record for, pending or processed.
C2_NoRecordForKnownId ==
  [][\A n \in Names, id \in Ids :
       Total(idStore, n, id) > 0 => Total(idStore', n, id) = Total(idStore, n, id)]_vars

\* a discovery has succeeded whose list held an id that was already pending
C2_Witness ==
  /\ lastOp = "discover_ok"
  /\ disc.ret = 0
  /\ \E id \in Ids : id \in disc.ids /\ Pending("", id) /\ ~Processed("", id)

\* C3: a successful discovery persists exactly fetched minus known, one pending
\* record each, and returns the number of ids of that set.
C3_DiscoverPersistsDifference ==
  [][(pc = "center" /\ lastOp' = "discover_ok") =>
       LET n == centers[ci].name
           new == disc'.ids \ GetDatasetByCenter(idStore, n)
       IN /\ disc'.ret = Cardinality(new)
          /\ \A id \in Ids :
               idStore'[n][id] = IF id \in new THEN [pending |-> 1, processed |-> 0]
                                 ELSE idStore[n][id]]_vars

\* C4: a discovery that gets the ids its center's previous, successful discovery
\* got finds no new id: it writes nothing to the dedup store, it returns 0, and
\* the only way it can fail after the list arrived is the read of the known ids.
C4_DiscoverIdempotent ==
  [][(DiscoverStep /\ disc'.ids # NoBody /\ disc'.ids = prevIds[centers[ci].name]) =>
       /\ idStore' = idStore
       /\ disc'.err \in {"none", "storage_read"}
       /\ disc'.err = "none" => disc'.ret = 0]_vars

\* a second discovery has succeeded on the list of the first, which was not empty
C4_Witness ==
  /\ lastOp = "discover_ok"
  /\ disc.repeat
  /\ disc.ids = Ids

C6_FailureNeverAbortsBatch ==
  (RunEnded /\ proc.err \notin {"upsert_err", "mark_err"}) =>
    \A i \in DOMAIN requested, j \in DOMAIN runPending :
      (detail[requested[i]].kind \in {"transport_err", "http_fail", "parse_err"} /\ j > i)
        => runPending[j] \in Range(requested)

\* C7: with cycles following one another, a pending id whose details request
\* succeeds is eventually processed, whatever the other ids' requests do.
C7_GoodIdEventuallyProcessed ==
  \A id \in Ids :
    (Pending("", id) /\ detail[id].kind = "ok") ~> Processed("", id)

C9_UpsertKeyedByExternalId ==
  \A n \in Names :
    /\ \A x \in Ids, y \in Ids :
         (x # y /\ Processed(n, x) /\ Processed(n, y)) =>
           \E r \in RawIds, q \in RawIds :
             r # q /\ datasets[n][r] = x /\ datasets[n][q] = y
    /\ \A x \in Ids :
         Processed(n, x) => Cardinality({r \in RawIds : datasets[n][r] = x}) <= 1

\* C10: when a cycle has ended, it returned Ok and discovery was attempted for
\* every enabled center that comes after a center that failed.
C10_FailureDoesNotAbortCycle ==
  lastOp = "end" =>
    /\ cycleResult = "ok"
    /\ \A i \in failedC, j \in DOMAIN centers :
         (j > i /\ centers[j].enabled) => j \in attempted

\* ------------------------------------------------ claims: the monitoring run

\* the rows the current run inserted
BatchRows == {m \in rows : m.batch = runNo}
\* the placeholder insert of the current run has completed
Inserted ==
  mlast \in {"insert", "admit", "complete", "update", "update_err", "crash_probing"}
\* the result record the probe of the i-th record of the run has to give
Expected(i) == ProcessRecord(records[i], answers[records[i].id], runNo)

\* C11: whenever a probe of the run has been started, every record of the run
\* has its row in the table; and a run whose insert failed has started no probe.
C11_InsertBeforeProbes ==
  /\ admitted > 0 =>
       \A i \in DOMAIN records : \E m \in BatchRows : m.id = records[i].id
  /\ mlast = "insert_err" =>
       admitted = 0 /\ inflight = {} /\ results = << >> /\ answers = NoAnswers

\* the first probe of a batch of three has started
C11_Witness ==
  /\ mlast = "admit"
  /\ admitted = 1
  /\ Len(records) = 3
  /\ Cardinality(BatchRows) = 3

\* C12: after a run that ended with Ok, every record of the run has exactly one
\* row of the run, and that row holds the result of the probe of that record:
\* no result column is left as inserted, and none holds another probe's result.
C12_EveryRowUpdatedWithOwnResult ==
  mlast = "update" =>
    /\ Cardinality(BatchRows) = Len(records)
    /\ \A i \in DOMAIN records :
         /\ answers[records[i].id] # Unasked
         /\ Row(Expected(i), runNo) \in rows
         /\ Expected(i).response_time_ms # Null

\* a run over three records whose probes ended in three different ways
C12_Witness ==
  /\ mlast = "update"
  /\ Len(records) = 3
  /\ answers[1].kind = "response" /\ answers[1].status = 200
  /\ answers[2].kind = "response" /\ answers[2].status = 404
  /\ answers[3].kind = "error"

\* C13: from the completed insert on, every record of the run has a row of the
\* run; while the probes run, and after a crash or a failed update, that row is
\* the placeholder with every result column null.
C13_PlaceholderRowsSurvive ==
  /\ Inserted =>
       \A i \in DOMAIN records : \E m \in BatchRows : m.id = records[i].id
  /\ (mpc = "probing" \/ mlast \in {"crash_probing", "update_err"}) =>
       \A i \in DOMAIN records :
         /\ Row(records[i], runNo) \in rows
         /\ records[i].status_code = NoStatus
         /\ records[i].status_text = Null
         /\ records[i].error_category = Null
         /\ records[i].error_msg = Null
         /\ records[i].error_detail = Null
         /\ records[i].response_time_ms = Null

\* a crash after two of three probes have completed
C13_Witness ==
  /\ mlast = "crash_probing"
  /\ Len(records) = 3
  /\ Len(results) = 2

\* C14: the number of probes in the pool never exceeds max_concurrent.
C14_PoolBounded == Cardinality(inflight) <= maxConcurrent

\* the pool of size 2 is full and a third record waits
C14_Witness ==
  /\ maxConcurrent = 2
  /\ Cardinality(inflight) = 2
  /\ Len(records) = 3
  /\ admitted = 2

\* C15: when the probe phase has ended, every record of the run was probed and
\* has exactly one result, whatever its probe ended in, so there are as many
\* results as records.
C15_OneResultPerRecord ==
  mlast \in {"update", "update_err"} =>
    /\ Len(results) = Len(records)
    /\ \A i \in DOMAIN records :
         /\ answers[records[i].id] # Unasked
         /\ Cardinality({j \in DOMAIN results : results[j].id = records[i].id}) = 1

\* the probe that completed first failed at transport level, the two others
\* returned a status
C15_Witness ==
  /\ mlast = "update"
  /\ Len(results) = 3
  /\ answers[results[1].id].kind = "error"
  /\ results[2].status_code = 200
  /\ results[3].status_code = 404

\* C16: once the insert has completed, the run has inserted one row per loaded
\* document whose url field is a string, and a document without such a url has
\* no row and no probe.
C16_DocumentsWithoutUrlDropped ==
  Inserted =>
    /\ Cardinality(BatchRows) =
         Cardinality({i \in DOMAIN mongoDocs : mongoDocs[i].url = "string"})
    /\ \A i \in DOMAIN mongoDocs :
         mongoDocs[i].url # "string" =>
           /\ answers[mongoDocs[i].oid] = Unasked
           /\ \A m \in rows : m.id # mongoDocs[i].oid

\* three documents, the second without url: two rows, two probes
C16_Witness ==
  /\ mlast = "update"
  /\ Len(mongoDocs) = 3
  /\ mongoDocs[1].url = "string"
  /\ mongoDocs[2].url = "absent"
  /\ mongoDocs[3].url = "string"
  /\ Cardinality(BatchRows) = 2

\* ---------------------------------------------------- claims: the classifier

Probed == pstep \in {"processed", "stored"}

\* C17: a probe that received a 5xx status gives ServerError, one that received
\* a 4xx status gives ClientError, both with the status code kept and the local
\* flag false; every other status gives no category, the status code and the
\* local flag false.
C17_StatusClasses ==
  (Probed /\ probe.kind = "response") =>
    /\ probed.status_code = probe.status
    /\ ~probed.is_likely_local_issue
    /\ checked.category =
         IF probe.status \in 500..599 THEN "ServerError"
         ELSE IF probe.status \in 400..499 THEN "ClientError"
         ELSE Null
    /\ checked.category = Null <=> checked.ok
    /\ checked.category = Null <=> probed.error_category = Null

\* the probe that received 404
C17_Witness ==
  /\ pstep = "processed"
  /\ probe.kind = "response"
  /\ probe.status = 404
  /\ probed.status_code = 404
  /\ checked.category = "ClientError"

\* the cause text of the error mentions the phrase, in lower or upper case
Mentions(e, w) ==
  /\ e.cause # NoCause
  /\ \/ w \in e.cause
     \/ w = "dns" /\ "DNS" \in e.cause
     \/ w = "ssl" /\ "SSL" \in e.cause

\* C18: for every transport error the category is the one the decision order
\* gives: timeout; else connect, by cause text; else redirect; else request;
\* else SslCertificate by cause text; else Unknown.
C18_TransportDecisionOrder ==
  (Probed /\ probe.kind = "error") =>
    LET e == probe.err
    IN /\ checked.category \in Categories
       /\ checked.category =
            CASE e.timeout -> "Timeout"
              [] ~e.timeout /\ e.connect ->
                   IF Mentions(e, "connection refused") THEN "ConnectionRefused"
                   ELSE IF Mentions(e, "dns") \/ Mentions(e, "resolve")
                     THEN "DnsResolution"
                   ELSE "NetworkConnection"
              [] ~e.timeout /\ ~e.connect /\ e.redirect -> "TooManyRedirects"
              [] ~e.timeout /\ ~e.connect /\ ~e.redirect /\ e.request -> "RequestCanceled"
              [] OTHER ->
                   IF Mentions(e, "ssl") \/ Mentions(e, "tls") \/ Mentions(e, "certificate")
                     THEN "SslCertificate"
                     ELSE "Unknown"

\* a connect error that is also a timeout and whose cause says connection refused
C18_Witness ==
  /\ pstep = "processed"
  /\ probe.kind = "error"
  /\ probe.err.timeout
  /\ probe.err.connect
  /\ probe.err.cause = {"connection refused"}
  /\ checked.category = "Timeout"

\* C19: is_likely_local_issue is true for NetworkConnection, DnsResolution,
\* Timeout and RequestCanceled, and false for the six other categories.
C19_LocalIssueCategories ==
  localIssue.done =>
    /\ category \in {"NetworkConnection", "DnsResolution", "Timeout", "RequestCanceled"}
         => localIssue.value
    /\ category \in {"SslCertificate", "ConnectionRefused", "ServerError", "ClientError",
                     "TooManyRedirects", "Unknown"}
         => ~localIssue.value

\* is_likely_local_issue of ConnectionRefused has been computed
C19_Witness ==
  /\ localIssue.done
  /\ category = "ConnectionRefused"
  /\ ~localIssue.value

\* C20: the local flag of a result record is is_likely_local_issue of the
\* category its probe was classified as, and false when the probe gave no
\* category; the row update_status writes carries the record's category and flag.
C20_FlagFollowsCategory ==
  /\ Probed =>
       /\ probed.error_category = Null <=> checked.category = Null
       /\ probed.is_likely_local_issue =
            IF checked.category = Null THEN FALSE
            ELSE IsLikelyLocalIssue(checked.category)
  /\ pstep = "stored" =>
       \A m \in stored :
         /\ m.error_category = probed.error_category
         /\ m.is_likely_local_issue = probed.is_likely_local_issue

\* a DNS failure has been written back with the flag set
C20_Witness ==
  /\ pstep = "stored"
  /\ checked.category = "DnsResolution"
  /\ \E m \in stored : m.error_category # Null /\ m.is_likely_local_issue

\* the call of task c has made its cache check
Looked(c) == callers[c].pos = "sending" \/ callers[c].status # "none"
\* task c receives the answer of its ticket request in this step
Receives(c) == callers[c].pos = "sending" /\ callers'[c].pos = "returned"
\* every TokenInfo a refresh can build
Credentials ==
  {NewTokenInfo(a, t) : a \in {x \in TicketAnswers : x.kind = "ok"}, t \in 0..MaxClock}

\* C21: a call whose cache check finds an entry of its provider with an expiry
\* later than now returns that entry as it is and sends no ticket request, so
\* two such calls for one provider with no insert between them return the same
\* credential.
C21_CacheHitReturnsCachedCredential ==
  /\ \A c \in Callers :
       Looked(c) /\ callers[c].fresh =>
         /\ callers[c].status = "ok"
         /\ callers[c].info = callers[c].seen
         /\ callers[c].asked = 0
  /\ \A c, d \in Callers :
       /\ Looked(c) /\ callers[c].fresh
       /\ Looked(d) /\ callers[d].fresh
       /\ callers[c].name = callers[d].name
       /\ callers[c].gen = callers[d].gen
       => callers[c].info = callers[d].info

C21_Witness ==
  /\ callers["c1"].fresh /\ callers["c2"].fresh
  /\ callers["c1"].name = callers["c2"].name
  /\ callers["c1"].op = "requested" /\ callers["c2"].op = "requested"
  /\ callers["c1"].info = callers["c2"].info
  /\ callers["c1"].info.version = "2.0"

\* C22: a call whose cache check finds no entry, or an entry whose expiry is not
\* later than now, sends exactly one ticket request, and when the answer parses
\* the entry of the provider becomes the credential built from that answer,
\* which is also what the call returns.
C22_MissRefreshesOnce ==
  [][\A c \in Callers :
       /\ callers'[c].asked <= 1
       /\ (callers[c].pos = "lookup" /\ callers'[c].pos # "lookup"
             /\ ~(tokenCache[callers[c].name] # NoEntry
                  /\ tokenCache[callers[c].name].expires_at > clock))
            => callers'[c].pos = "sending" /\ callers'[c].asked = 1
       /\ (Receives(c) /\ callers'[c].answer.kind = "ok")
            => /\ callers'[c].asked = 1
               /\ callers'[c].status = "ok"
               /\ tokenCache'[callers[c].name] = callers'[c].info
               /\ callers'[c].info.token = callers'[c].answer.token
               /\ callers'[c].info.version = Version(callers'[c].answer.service_list)
               /\ callers'[c].info.expires_at =
                    clock + callers'[c].answer.expires - SafetyMargin
               /\ Len(callers'[c].info.services) = Len(callers'[c].answer.service_list)
    ]_vars

C22_Witness ==
  \E c \in Callers :
    /\ callers[c].seen # NoEntry
    /\ ~callers[c].fresh
    /\ callers[c].status = "ok"
    /\ callers[c].asked = 1
    /\ tokenCache[callers[c].name] = callers[c].info
    /\ callers[c].info # callers[c].seen

\* C23: the cached entry of a provider changes only in a step in which a call
\* for that very provider stores its credential: a call for P, whether it hits,
\* refreshes or fails, leaves the entry of every other provider as it is.
C23_OtherProvidersUntouched ==
  [][\A n \in Providers :
       tokenCache'[n] # tokenCache[n] =>
         \E c \in Callers : Receives(c) /\ callers[c].name = n
    ]_vars

C23_Witness ==
  /\ tokenCache["Q"] # NoEntry
  /\ tokenCache["Q"] = lastStored["Q"]
  /\ \E c \in Callers :
       callers[c].name = "P" /\ callers[c].asked = 1 /\ callers[c].status = "ok"
  /\ \E c \in Callers : callers[c].name = "P" /\ callers[c].status = "err"

\* C24: every credential a call returns is one built whole from one ticket
\* answer, and when no call is under way the cache holds for each provider the
\* credential of the last insert for it (none before the first).
C24_RefreshRaceLastWriterWins ==
  /\ \A c \in Callers :
       callers[c].status = "ok" => callers[c].info \in Credentials
  /\ (\A c \in Callers : callers[c].pos = "idle") =>
       \A n \in Providers :
         /\ tokenCache[n] = lastStored[n]
         /\ stores[n] > 0 <=> tokenCache[n] # NoEntry
         /\ tokenCache[n] # NoEntry => tokenCache[n] \in Credentials

C24_Witness ==
  /\ \A c \in Callers :
       /\ callers[c].pos = "idle"
       /\ callers[c].name = "P"
       /\ callers[c].asked = 1
       /\ callers[c].status = "ok"
       /\ callers[c].gen = 0
  /\ callers["c1"].info.token # callers["c2"].info.token
  /\ stores["P"] = 2
  /\ tokenCache["P"] = callers["c2"].info

\* C25: a call whose ticket request gets no response, or a body that is no
\* ticket response, returns an error, its step leaves the whole cache as it
\* was, and the operation that made the call sends no request of its own.
C25_FailedRefreshKeepsCache ==
  [][\A c \in Callers :
       /\ (Receives(c) /\ callers'[c].answer.kind \in {"unreachable", "unparsable"})
            => /\ callers'[c].status = "err"
               /\ callers'[c].info = NoEntry
               /\ tokenCache' = tokenCache
               /\ stores' = stores
       /\ callers'[c].status = "err"
            => /\ callers'[c].used = 0
               /\ callers'[c].op \in {"none", "auth_err"}
               /\ callers'[c].answer.kind \in {"unreachable", "unparsable"}
    ]_vars

C25_Witness ==
  \E c \in Callers :
    /\ callers[c].op = "auth_err"
    /\ callers[c].answer.kind = "unparsable"
    /\ callers[c].seen # NoEntry
    /\ tokenCache[callers[c].name] = callers[c].seen
    /\ callers[c].used = 0

\* --------------------------------------------- claims: the analytical store

\* the call of the monitoring run has returned Ok
ReturnedOk(op) ==
  /\ storeTasks["monitor"].op = op
  /\ storeTasks["monitor"].pos = "returned"
  /\ storeTasks["monitor"].result = "ok"
\* a result of the Ok branch of handle_check_result
Successful(r) == r.error_category = Null /\ r.status_code # NoStatus
\* the identity columns of row m are those of record r
SameIdentity(m, r) ==
  /\ m.id = r.id
  /\ m.raw_id = r.raw_id
  /\ m.url = r.url
  /\ m.name = r.name
  /\ m.center_name = r.center_name
  /\ m.date_published = r.date_published
\* the result columns of row m, the check time apart, are those of the
\* successful result r
SameResult(m, r) ==
  /\ m.status_code = r.status_code
  /\ m.status_text = r.status_text /\ m.status_text # Null
  /\ m.headers = r.headers /\ m.headers # Null
  /\ m.response_time_ms = r.response_time_ms /\ m.response_time_ms # Null
  /\ m.is_likely_local_issue = r.is_likely_local_issue
  /\ m.error_category = Null
  /\ m.error_msg = Null
  /\ m.error_detail = Null
\* the rows of the run for the i-th record
RunRows(i) == {m \in committed.table : m.batch = 1 /\ m.id = runRecords[i].id}

\* C26 as stated: once update_status has returned Ok, the row of every record
\* whose probe succeeded reads back with every result column, the check time
\* included, equal to the value of the result passed to the update, and with
\* the identity columns of the inserted record.
C26_Original ==
  ReturnedOk("update") =>
    \A i \in DOMAIN runResults :
      Successful(runResults[i]) =>
        /\ Cardinality(RunRows(i)) = 1
        /\ \A m \in RunRows(i) :
             /\ SameIdentity(m, runRecords[i])
             /\ SameResult(m, runResults[i])
             /\ m.check_time = runResults[i].check_time

\* C26 amended: once update_status has returned Ok, the row of every record
\* whose probe succeeded reads back with the identity columns of the inserted
\* record and the result columns of the result passed to the update, the
\* check time being that of the result cut to the microsecond.
C26_RoundTripToTheMicrosecond ==
  ReturnedOk("update") =>
    \A i \in DOMAIN runResults :
      Successful(runResults[i]) =>
        /\ Cardinality(RunRows(i)) = 1
        /\ \A m \in RunRows(i) :
             /\ SameIdentity(m, runRecords[i])
             /\ SameResult(m, runResults[i])
             /\ m.check_time % NanosPerMicro = 0
             /\ m.check_time <= runResults[i].check_time
             /\ runResults[i].check_time < m.check_time + NanosPerMicro

\* two records, both probes successful, one completed on a microsecond and one
\* between two; the reader has read the updated rows
C26_Witness ==
  /\ ReturnedOk("update")
  /\ Len(runResults) = 2
  /\ Successful(runResults[1]) /\ runResults[1].check_time = NanosPerMicro
  /\ Successful(runResults[2]) /\ runResults[2].check_time > 2 * NanosPerMicro
  /\ runRecords[1].name # runRecords[2].name
  /\ readRows = committed.table

\* C27: insert_records and update_status called with an empty batch return Ok
\* at once: the call issues no statement, takes no guard, creates no staging
\* table and leaves every row as it is.
C27_EmptyBatchNoOp ==
  [][/\ (storeTasks'["monitor"].op = "insert" /\ runRecords' = << >>) =>
          /\ storeTasks'["monitor"].pos = "returned"
          /\ storeTasks'["monitor"].result = "ok"
          /\ storeTasks'["monitor"].statements = 0
     /\ (storeTasks'["monitor"].op = "update" /\ runResults' = << >>) =>
          /\ storeTasks'["monitor"].pos = "returned"
          /\ storeTasks'["monitor"].result = "ok"
          /\ storeTasks'["monitor"].statements = 0
     /\ (storeTasks'["monitor"] # storeTasks["monitor"]
           /\ \/ storeTasks'["monitor"].op = "insert" /\ runRecords' = << >>
              \/ storeTasks'["monitor"].op = "update" /\ runResults' = << >>) =>
          /\ tableRows' = tableRows
          /\ committed' = committed
          /\ tempUpdates' = tempUpdates
          /\ lockHolder' = lockHolder
    ]_vars

\* a run without records over a table holding an earlier row: both calls made,
\* the row as it was
C27_Witness ==
  /\ runOutcome = "ok"
  /\ runRecords = << >>
  /\ ReturnedOk("update")
  /\ storeTasks["monitor"].statements = 0
  /\ committed.table = OldRows
  /\ readRows = OldRows

\* C28: a step of insert_records or update_status that fails returns the error,
\* which check_all_urls returns in turn; the table is then as last committed, no
\* staging table exists and the guard is free. What is committed is always the
\* table before the run, that table with every row of the batch inserted, or
\* the latter with every row of the batch updated.
C28_StoreCallsAtomic ==
  [][/\ (storeTasks'["monitor"].result = "err" /\ storeTasks["monitor"].result # "err") =>
          /\ tableRows' = committed.table
          /\ committed' = committed
          /\ tempUpdates' = NoTemp
          /\ lockHolder' # "monitor"
     /\ runOutcome' # "none" =>
          (runOutcome' = "err" <=> storeTasks'["monitor"].result = "err")
     /\ lockHolder' # "monitor" =>
          /\ tableRows' = committed'.table
          /\ tempUpdates' = NoTemp
          /\ committed'.temp = NoTemp
     /\ \E before \in {{}, OldRows} :
          committed'.table \in
            {before,
             InsertRecords(before, runRecords', 1),
             UpdateStatus(InsertRecords(before, runRecords', 1), runResults')}
    ]_vars

\* update_status failed after its UPDATE statement: the rows of the batch are
\* the placeholders, the run returned the error
C28_Witness ==
  /\ storeTasks["monitor"].op = "update"
  /\ storeTasks["monitor"].result = "err"
  /\ storeTasks["monitor"].statements >= 4
  /\ runOutcome = "err"
  /\ Len(runRecords) = 2
  /\ tableRows = InsertRecords(OldRows, runRecords, 1)
  /\ tempUpdates = NoTemp

\* positions of a call in which the task holds the guard of the connection
Holding ==
  {"locked", "tx", "created", "staged", "updated", "written"}

\* C30: at no moment two calls hold the connection: the tasks inside
\* insert_records, update_status or a read query past the lock are at most one,
\* and it is the holder of the guard.
C30_ConnectionSerialized ==
  /\ Cardinality({t \in StoreTasks : storeTasks[t].pos \in Holding}) <= 1
  /\ \A t \in StoreTasks : storeTasks[t].pos \in Holding <=> lockHolder = t

\* update_status is between its statements while the reader waits for the guard
C30_Witness ==
  /\ lockHolder = "monitor"
  /\ storeTasks["monitor"].pos = "staged"
  /\ storeTasks["reader"].pos = "waiting"

\* ---------------------------------------------- claims: the run's summary

\* C29: a run that has logged its counts has emitted the warning exactly when
\* ten times the local-issue count exceeds the number of results: the integer
\* test local > total / 10 agrees with the exact comparison for every pair of
\* counts (2 of 10 warns, 1 of 10 and 0 of 0 do not).
C29_WarningAboveTenPercent ==
  summaryStep = "done" =>
    (warning <=> 10 * localIssueCount > resultCount)

\* 2 local issues among 10 results: the warning is emitted
C29_Witness ==
  /\ summaryStep = "done"
  /\ resultCount = 10
  /\ localIssueCount = 2
  /\ warning

\* ------------------------------------- claims: termination of the probe phase

\* C31: whenever a run is in its probe phase, for whatever batch and pool size,
\* the bulk update is eventually reached with every record admitted and a result
\* collected for each.
C31_ProbePhaseTerminates ==
  (mpc = "probing") ~>
    (/\ mlast \in {"update", "update_err"}
     /\ admitted = Len(records)
     /\ Len(results) = Len(records))

\* ------------------------------------------ claims: discover_new_ids, failing

\* the reasons of a failed discovery the claim names: no credential, no list
\* service, and every way the list request and its body can fail
DiscoverFailures == {"auth", "no_service"} \cup ListFailures

\* C32: a discover call that fails for one of these reasons changes no record of
\* the dedup store and has sent the list request at most once (not at all when
\* it failed before it) and the ticket request at most once.
C32_FailedDiscoverLeavesStore ==
  [][(lastOp' = "discover_err" /\ disc'.err \in DiscoverFailures) =>
       /\ idStore' = idStore
       /\ disc'.listRequests = (IF disc'.err \in ListFailures THEN 1 ELSE 0)
       /\ disc'.ticketRequests <= 1]_vars

\* a call has failed on a 4xx/5xx status whose body was an array with an id the
\* store does not hold, over a store that holds a record
C32_Witness ==
  /\ lastOp = "discover_err"
  /\ disc.err = "http_err"
  /\ disc.body = << "a", "b" >>
  /\ disc.listRequests = 1
  /\ idStore[""]["a"] = [pending |-> 0, processed |-> 1]
  /\ idStore[""]["b"] = EmptyEntry

\* --------------------------------------- claims: process_pending_datasets

\* the ids a run found pending and left processed
MovedIds ==
  {id \in Range(runPending) :
     idStore[proc.name][id].pending = 0 /\ idStore[proc.name][id].processed > 0}

\* C33: when process_pending_datasets has returned Ok(count), count is the
\* number of ids that were pending at the start of the run and are processed at
\* its end.
C33_CountIsIdsMoved ==
  lastOp = "run_ok" => proc.ret = Cardinality(MovedIds)

\* ---------------------------------------------------- claims: no probe retry

\* C34: in a monitoring run no record has more than one probe request sent for
\* it, whatever the request ended in and whatever retry_times is; a record whose
\* result is in has had exactly one, and after a run that ended with Ok every
\* inserted record has had exactly one.
C34_OneProbePerRecord ==
  /\ \A id \in 1..MaxDocs : sent[id] <= 1
  /\ \A j \in DOMAIN results : sent[results[j].id] = 1
  /\ mlast = "update" =>
       \A m \in BatchRows : sent[m.id] = 1

\* a run configured with two retries has ended, and a record whose request
\* timed out and one whose request got a 404 have been probed once each
C34_Witness ==
  /\ mlast = "update"
  /\ retryTimes = 2
  /\ Len(records) >= 2
  /\ \E m \in BatchRows : answers[m.id].kind = "error" /\ sent[m.id] = 1
  /\ \E m \in BatchRows : answers[m.id].status = 404 /\ sent[m.id] = 1

\* ------------------------------------------ claims: shape of a result record

\* the probe received a status that is neither 4xx nor 5xx
NonErrorStatus ==
  probe.kind = "response" /\ ~IsClientError(probe.status) /\ ~IsServerError(probe.status)
\* the error fields of a record
ErrorFields(r) == {r.error_category, r.error_msg, r.error_detail}

\* C35: in the record a probe gives, and in the row stored from it, category,
\* message and detail are all null or all set; they are all null exactly when
\* the probe received a status that is neither 4xx nor 5xx, and then status
\* code and status text are set; after a 4xx/5xx status the status code is the
\* received one and the category is set.
C35_ResultShape ==
  Probed =>
    \A r \in {probed} \cup (IF pstep = "stored" THEN stored ELSE {}) :
      /\ ErrorFields(r) = {Null} \/ Null \notin ErrorFields(r)
      /\ ErrorFields(r) = {Null} <=> NonErrorStatus
      /\ NonErrorStatus =>
           r.status_code = probe.status /\ r.status_code # NoStatus /\ r.status_text # Null
      /\ (probe.kind = "response" /\ ~NonErrorStatus) =>
           r.status_code = probe.status /\ r.error_category # Null

\* the row of a probe that received 404 has been stored
C35_Witness ==
  /\ pstep = "stored"
  /\ probe.kind = "response"
  /\ probe.status = 404
  /\ \E m \in stored : m.status_code = 404 /\ m.error_category = "ClientError"

\* ------------------------------------- claims: one record per provider and id

\* C36: the dedup store never holds more than one record for a center and an
\* id, and a discovery that succeeded returns at most the number of distinct
\* ids of its list.
C36_OneRecordPerId ==
  /\ \A n \in Names, id \in Ids : Total(idStore, n, id) <= 1
  /\ lastOp = "discover_ok" => disc.ret <= Cardinality(disc.ids)

\* ------------------------------------------ claims: the history across runs

\* C37: the row an earlier run completed is in the committed table as that run
\* left it, status code, error fields and check time included, whatever a later
\* run inserts and updates.
C37_EarlierRowsKept ==
  \A m \in committed.table : m.batch = 0 => m \in OldRows

\* ------------------------------------------- claims: the centers of a cycle

\* C38: when a fetch cycle has ended, discovery was attempted for exactly the
\* centers whose enabled flag is set.
C38_AttemptedIffEnabled ==
  lastOp = "end" =>
    \A j \in DOMAIN centers : j \in attempted <=> centers[j].enabled

\* ------------------------------------------- claims: the counts of a summary

\* C39: for the results of a run, here the one result of one probe, the three
\* counts of the summary add up to the number of results.
C39_CountsPartition ==
  Probed =>
    SuccessCount(<< probed >>) + LocalIssueCount(<< probed >>)
      + RemoteIssueCount(<< probed >>) = Len(<< probed >>)

\* ------------------------------- claims: the expiry a refresh gives its entry

\* C40 as stated: whatever ttl the ticket answer carries, the entry a refresh
\* stores expires at the time of the refresh plus the ttl minus 300 seconds,
\* that expiry is later than the time of the refresh, and the cache check of a
\* call for the same provider that follows at once finds the entry.
C40_Original ==
  [][\A c \in Callers :
       (Receives(c) /\ callers'[c].answer.kind = "ok")
         => /\ tokenCache'[callers[c].name].expires_at =
                 clock + callers'[c].answer.expires - SafetyMargin
            /\ tokenCache'[callers[c].name].expires_at > clock
            /\ CachedToken(tokenCache', callers[c].name, clock')
                 = tokenCache'[callers[c].name]
    ]_vars

\* C40: whatever ttl the ticket answer carries, the entry a refresh stores
\* expires at the time of the refresh plus the ttl minus 300 seconds. For a ttl
\* above 300 seconds that expiry is later than the time of the refresh and the
\* cache check of a call for the same provider that follows at once finds the
\* entry; for a ttl of 300 seconds or less the entry is stored expired and that
\* cache check finds nothing, so the call sends a ticket request of its own.
C40_ExpiryIsTtlLessMargin ==
  [][\A c \in Callers :
       (Receives(c) /\ callers'[c].answer.kind = "ok")
         => LET entry == tokenCache'[callers[c].name]
                ttl == callers'[c].answer.expires
            IN /\ entry.expires_at = clock + ttl - SafetyMargin
               /\ ttl > SafetyMargin =>
                    /\ entry.expires_at > clock
                    /\ CachedToken(tokenCache', callers[c].name, clock') = entry
               /\ ttl <= SafetyMargin =>
                    /\ entry.expires_at <= clock
                    /\ CachedToken(tokenCache', callers[c].name, clock') = NoEntry
    ]_vars

\* one task refreshed the entry of a provider with a ttl of 301 seconds, and
\* the other task's call for that provider, at the time of the refresh, found
\* the entry and sent no ticket request
C40_Witness ==
  /\ callers["c1"].answer.kind = "ok"
  /\ callers["c1"].answer.expires = SafetyMargin + 1
  /\ callers["c1"].asked = 1
  /\ callers["c1"].info.expires_at = clock + 1
  /\ callers["c2"].name = callers["c1"].name
  /\ callers["c2"].seen = callers["c1"].info
  /\ callers["c2"].fresh
  /\ callers["c2"].asked = 0
  /\ callers["c2"].status = "ok"
  /\ callers["c2"].info = callers["c1"].info
====
